---------------------------- MODULE Spec2Model ----------------------------
(***************************************************************************)
(* Gate model of qibo (src/qibo/base/gates.py, src/qibo/tensorflow/gates.py *)
(* and src/qibo/tensorflow/cgates.py).                                      *)
(*                                                                         *)
(* One gate object `gate` is followed through its life: construction,      *)
(* qubit assignment, binding (nqubits), preparation, parameter updates,    *)
(* reads of the cached unitary and the methods that derive new gates       *)
(* (controlled_by, dagger, on_qubits).  Every method call is one action;   *)
(* the exception it raises (if any) is recorded in `exc`, the object it    *)
(* returns in `ret`.  A call that leaves every field of the gate as it was  *)
(* ends the behaviour: the calls that could follow it are the calls that    *)
(* can be made instead of it, on the same gate.                             *)
(***************************************************************************)
EXTENDS Integers, Sequences, FiniteSets, TLC

VARIABLES
    gate,       \* the gate instance under observation (a record of its fields)
    other,      \* second gate, argument of commutes (<<>> when not used)
    op,         \* name of the last method that was called
    args,       \* qubit-id sequence passed to the last call
    exc,        \* exception class raised by the last call, "none" if it returned
    ret,        \* <<g>> when the last call returned gate g, <<>> otherwise
    retself,    \* TRUE when the returned object is the gate itself
    flag,       \* boolean outcome of the last call: construct_unitary ran (unitary),
                \* a cached unitary was dropped (parameter), the answer (commutes)
    changed,    \* TRUE when the last call built the gate or changed one of its fields
    chan,       \* the channel instance under observation (<<>> when not used)
    input,      \* the state handed to the last application (<<>> when not used)
    state,      \* the state the last application left behind (<<>> when not used)
    trace,      \* what the last application did, in order: draws, gates, prepares
    circuit     \* the distributed circuit whose gates are grouped (<<>> when not used)

vars == <<gate, other, op, args, exc, ret, retself, flag, changed,
          chan, input, state, trace, circuit>>

\* the variables of channel and state application, untouched by gate methods
application == <<chan, input, state, trace, circuit>>

----------------------------------------------------------------------------
(* Bounds of the model *)

NumQubits == 4      \* qubit ids are 0 .. NumQubits-1
NumLowQubits == 3   \* constructors use ids 0 .. NumLowQubits-1
NumAssignQubits == 2 \* direct assignments use ids 0 .. NumAssignQubits-1
MaxAssign == 2      \* longest sequence given to a direct qubit assignment
MaxControls == 3    \* longest sequence given to controlled_by / on_qubits
MaxParam == 2       \* parameter values are 1 .. MaxParam

Qubits == 0 .. (NumQubits - 1)
Params == 1 .. MaxParam

LowQubits == 0 .. (NumLowQubits - 1)

SeqsUpTo(n) == UNION {[1..k -> Qubits] : k \in 0..n}
LowSeqsUpTo(n) == UNION {[1..k -> LowQubits] : k \in 0..n}

AssignQubits == 0 .. (NumAssignQubits - 1)
AssignSeqsUpTo(n) == UNION {[1..k -> AssignQubits] : k \in 0..n}

----------------------------------------------------------------------------
(* Python helpers *)

ToSet(s) == {s[i] : i \in 1..Len(s)}

\* sorted(set) as a tuple
RECURSIVE Sorted(_)
Sorted(S) ==
    IF S = {} THEN <<>>
    ELSE LET m == CHOOSE x \in S : \A y \in S : x <= y
         IN <<m>> \o Sorted(S \ {m})

RECURSIVE Pow2(_)
Pow2(n) == IF n = 0 THEN 1 ELSE 2 * Pow2(n - 1)

----------------------------------------------------------------------------
(* Gate classes *)

OneQubitPlain == {"H", "X", "Z"}
OneQubitParam == {"RX", "U1"}
ControlledPlain == {"CNOT", "CZ"}
ControlledParam == {"CRX", "CU1"}
SpecialGate == {"Flatten"}
ParametrizedGate == OneQubitParam \cup ControlledParam
                       \cup {"fSim", "Unitary", "VariationalLayer"}
Classes == OneQubitPlain \cup OneQubitParam \cup ControlledPlain
              \cup ControlledParam
              \cup {"TOFFOLI", "fSim", "Unitary", "VariationalLayer", "Flatten"}

\* number of qubit ids the constructor of a class takes
Arities(cls) ==
    IF cls \in OneQubitPlain \cup OneQubitParam THEN {1}
    ELSE IF cls \in ControlledPlain \cup ControlledParam THEN {2}
    ELSE IF cls = "TOFFOLI" THEN {3}
    ELSE IF cls \in {"fSim", "VariationalLayer"} THEN {2}
    ELSE IF cls = "Unitary" THEN {1, 2}
    ELSE {0}

\* Gate.__init__ : the fields every gate starts with
Gate(cls) ==
    [cls |-> cls,
     target_qubits |-> <<>>,
     control_qubits |-> {},
     is_controlled_by |-> FALSE,
     is_prepared |-> FALSE,
     nqubits |-> 0,          \* 0 stands for None
     nstates |-> 0,          \* 0 stands for None
     theta |-> 0,            \* current parameter (unused by plain gates)
     init_args |-> <<>>,     \* qubit ids among the constructor arguments
     init_kwargs |-> 0,      \* parameter among the constructor arguments
     unitary |-> <<>>]       \* _unitary: <<>> is None, <<m>> a cached matrix

Ok(g) == [gate |-> g, exc |-> "none"]
Raise(g, e) == [gate |-> g, exc |-> e]


----------------------------------------------------------------------------
(* Qubit setters of Gate.  Each returns the gate as the call leaves it and  *)
(* the exception it raised: the fields are assigned before the check runs.  *)

\* Gate._set_target_qubits
set_target_qubits(g, qubits) ==
    LET g1 == [g EXCEPT !.target_qubits = qubits]
    IN IF Len(qubits) # Cardinality(ToSet(qubits))
       THEN Raise(g1, "ValueError") ELSE Ok(g1)

\* Gate._set_control_qubits
set_control_qubits(g, qubits) ==
    LET g1 == [g EXCEPT !.control_qubits = ToSet(qubits)]
    IN IF Cardinality(ToSet(qubits)) # Len(qubits)
       THEN Raise(g1, "ValueError") ELSE Ok(g1)

\* the overlap check left out
check_control_target_overlap_skipped(g) == Ok(g)

\* Gate._check_control_target_overlap
check_control_target_overlap(g) ==
    IF ToSet(g.target_qubits) \cap g.control_qubits # {}
    THEN Raise(g, "ValueError") ELSE Ok(g)

\* Gate.target_qubits setter
target_qubits_setter(g, qubits) ==
    LET r == set_target_qubits(g, qubits)
    IN IF r.exc # "none" THEN r ELSE check_control_target_overlap(r.gate)

\* Gate.control_qubits setter
control_qubits_setter(g, qubits) ==
    LET r == set_control_qubits(g, qubits)
    IN IF r.exc # "none" THEN r ELSE check_control_target_overlap(r.gate)

\* Gate.set_targets_and_controls
set_targets_and_controls(g, target_qubits, control_qubits) ==
    LET r1 == set_target_qubits(g, target_qubits)
        r2 == set_control_qubits(r1.gate, control_qubits)
    IN IF r1.exc # "none" THEN r1
       ELSE IF r2.exc # "none" THEN r2
       ELSE check_control_target_overlap(r2.gate)

\* Gate.control_qubits getter: tuple(sorted(self._control_qubits))
control_qubits(g) == Sorted(g.control_qubits)

\* Gate.qubits
qubits(g) == control_qubits(g) \o g.target_qubits

\* the setter without its guard against a second assignment
nqubits_setter_unguarded(g, n) ==
    Ok([g EXCEPT !.nqubits = n, !.nstates = Pow2(n)])

\* Gate.nqubits setter
nqubits_setter(g, n) ==
    IF g.nqubits # 0 THEN Raise(g, "RuntimeError")
    ELSE Ok([g EXCEPT !.nqubits = n, !.nstates = Pow2(n)])

----------------------------------------------------------------------------
(* Matrices.  A matrix is represented by what determines it: the class     *)
(* whose _construct_unitary built it, the parameter it was built from and   *)
(* whether _control_unitary wrapped it.                                     *)

Matrix(cls, param, controlled) ==
    [cls |-> cls, param |-> param, controlled |-> controlled]

\* classes that inherit the empty TensorflowGate._construct_unitary
NoMatrixClasses == {"VariationalLayer", "Flatten"}

\* classes deriving from MatrixGate (prepare builds the kernel matrix)
MatrixGate == {"H", "RX", "U1", "CRX", "CU1", "fSim", "Unitary",
               "VariationalLayer"}

\* side length of the matrix returned by _construct_unitary
BaseDim(g) ==
    IF g.cls \in OneQubitPlain \cup OneQubitParam THEN 2
    ELSE IF g.cls \in ControlledPlain \cup ControlledParam \cup {"fSim"} THEN 4
    ELSE IF g.cls = "TOFFOLI" THEN 8
    ELSE Pow2(Len(g.init_args))    \* Unitary: shape of the stored matrix

\* BaseTensorflowGate.construct_unitary; m is <<>> for None
construct_unitary(g) ==
    IF g.cls \in NoMatrixClasses
    THEN IF g.is_controlled_by
         THEN [m |-> <<>>, exc |-> "AttributeError"]
         ELSE [m |-> <<>>, exc |-> "none"]
    ELSE IF g.is_controlled_by
         THEN IF BaseDim(g) # 2
              THEN [m |-> <<>>, exc |-> "ValueError"]
              ELSE [m |-> <<Matrix(g.cls, g.theta, TRUE)>>, exc |-> "none"]
         ELSE [m |-> <<Matrix(g.cls, g.theta, FALSE)>>, exc |-> "none"]

----------------------------------------------------------------------------
(* Parameter setters *)

\* the setter keeping the cached unitary
ParametrizedGate_parameter_keeping(g, x) ==
    Ok([g EXCEPT !.theta = x])

\* ParametrizedGate.parameter setter (also U1, CRn, CU1 and fSim, which
\* clear the cache the same way)
ParametrizedGate_parameter(g, x) ==
    Ok([g EXCEPT !.unitary = <<>>, !.theta = x])

\* Unitary.parameter setter; shapeok tells whether x has the shape
\* (2^rank, 2^rank) or (2^(2 rank),)
Unitary_parameter(g, x, shapeok) ==
    IF shapeok THEN Ok([g EXCEPT !.theta = x, !.unitary = <<>>])
    ELSE Raise(g, "ValueError")

\* VariationalLayer.parameter setter: stores the parameters and updates the
\* sub-gates; the layer's own _unitary is not touched
VariationalLayer_parameter(g, x) ==
    Ok([g EXCEPT !.theta = x])

\* the parameter setter the class of g resolves to
parameter_setter(g, x, shapeok) ==
    IF g.cls = "Unitary" THEN Unitary_parameter(g, x, shapeok)
    ELSE IF g.cls = "VariationalLayer" THEN VariationalLayer_parameter(g, x)
    ELSE ParametrizedGate_parameter(g, x)

----------------------------------------------------------------------------
(* Constructors.  New(cls, q, th) is cls(q..., th): the gate it builds, or    *)
(* the exception that leaves no gate behind.                                *)

\* H.__init__, X.__init__, Z.__init__
New_OneQubit(cls, q) ==
    LET r == target_qubits_setter(Gate(cls), <<q[1]>>)
    IN IF r.exc # "none" THEN r
       ELSE Ok([r.gate EXCEPT !.init_args = q])

\* _Rn_.__init__ and U1.__init__
New_OneQubitParam(cls, q, th) ==
    LET r == target_qubits_setter(Gate(cls), <<q[1]>>)
    IN IF r.exc # "none" THEN r
       ELSE Ok([ParametrizedGate_parameter(r.gate, th).gate
                  EXCEPT !.init_args = q, !.init_kwargs = th])

\* CNOT.__init__, CZ.__init__
New_Controlled(cls, q) ==
    LET r1 == control_qubits_setter(Gate(cls), <<q[1]>>)
        r2 == target_qubits_setter(r1.gate, <<q[2]>>)
    IN IF r1.exc # "none" THEN r1
       ELSE IF r2.exc # "none" THEN r2
       ELSE Ok([r2.gate EXCEPT !.init_args = q])

\* _CRn_.__init__ and CU1.__init__
New_ControlledParam(cls, q, th) ==
    LET r == New_Controlled(cls, q)
    IN IF r.exc # "none" THEN r
       ELSE Ok([ParametrizedGate_parameter(r.gate, th).gate
                  EXCEPT !.init_kwargs = th])

\* TOFFOLI.__init__
New_TOFFOLI(q) ==
    LET r1 == control_qubits_setter(Gate("TOFFOLI"), <<q[1], q[2]>>)
        r2 == target_qubits_setter(r1.gate, <<q[3]>>)
    IN IF r1.exc # "none" THEN r1
       ELSE IF r2.exc # "none" THEN r2
       ELSE Ok([r2.gate EXCEPT !.init_args = q])

\* fSim.__init__
New_fSim(q, th) ==
    LET r == target_qubits_setter(Gate("fSim"), q)
    IN IF r.exc # "none" THEN r
       ELSE Ok([ParametrizedGate_parameter(r.gate, th).gate
                  EXCEPT !.init_args = q, !.init_kwargs = th])

\* Unitary.__init__ (base and tensorflow): the matrix of rank mrank is
\* stored, the rank is checked and the unitary is built at once
New_Unitary(q, th, mrank) ==
    LET r == target_qubits_setter(Gate("Unitary"), q)
        g1 == [r.gate EXCEPT !.theta = th, !.init_args = q, !.init_kwargs = th]
    IN IF r.exc # "none" THEN r
       ELSE IF mrank # Len(q) THEN Raise(r.gate, "ValueError")
       ELSE IF Len(q) \notin {1, 2} THEN Raise(g1, "NotImplementedError")
       ELSE Ok([g1 EXCEPT !.unitary = construct_unitary(g1).m])

\* VariationalLayer.__init__ on the qubits q with the single pair (q[1], q[2])
New_VariationalLayer(q, th) ==
    LET r == target_qubits_setter(Gate("VariationalLayer"), q)
    IN IF r.exc # "none" THEN r
       ELSE Ok([r.gate EXCEPT !.theta = th, !.init_args = q, !.init_kwargs = th])

\* Flatten.__init__
New_Flatten == Ok(Gate("Flatten"))

\* cls(q..., th), for a q of the length the constructor takes
New(cls, q, th) ==
    IF cls \in OneQubitPlain THEN New_OneQubit(cls, q)
    ELSE IF cls \in OneQubitParam THEN New_OneQubitParam(cls, q, th)
    ELSE IF cls \in ControlledPlain THEN New_Controlled(cls, q)
    ELSE IF cls \in ControlledParam THEN New_ControlledParam(cls, q, th)
    ELSE IF cls = "TOFFOLI" THEN New_TOFFOLI(q)
    ELSE IF cls = "fSim" THEN New_fSim(q, th)
    ELSE IF cls = "Unitary" THEN New_Unitary(q, th, Len(q))
    ELSE IF cls = "VariationalLayer" THEN New_VariationalLayer(q, th)
    ELSE New_Flatten

\* cls(q..., th) for any number of positional qubit ids: a wrong number of
\* positional arguments is a TypeError before __init__ runs
Instantiate(cls, q, th) ==
    IF cls = "Unitary" \/ Len(q) \in Arities(cls) THEN New(cls, q, th)
    ELSE Raise(Gate(cls), "TypeError")

----------------------------------------------------------------------------
(* Methods.  Each returns the gate itself after the call (self), the        *)
(* exception raised, the returned gate (ret) and whether that is self.      *)

Returns(self, g) == [self |-> self, exc |-> "none", ret |-> <<g>>, retself |-> FALSE]
ReturnsSelf(self) == [self |-> self, exc |-> "none", ret |-> <<self>>, retself |-> TRUE]
Raises(self, e) == [self |-> self, exc |-> e, ret |-> <<>>, retself |-> FALSE]

\* the outcome of returning a freshly constructed gate
FromNew(self, r) == IF r.exc # "none" THEN Raises(self, r.exc)
                    ELSE Returns(self, r.gate)

\* Gate.controlled_by
Gate_controlled_by(g, q) ==
    IF g.control_qubits # {} THEN Raises(g, "RuntimeError")
    ELSE IF g.is_prepared THEN Raises(g, "RuntimeError")
    ELSE IF Len(q) > 0
         THEN LET r == control_qubits_setter([g EXCEPT !.is_controlled_by = TRUE], q)
              IN IF r.exc # "none" THEN Raises(r.gate, r.exc)
                 ELSE ReturnsSelf(r.gate)
         ELSE ReturnsSelf(g)

\* X.controlled_by
X_controlled_by(g, q) ==
    IF Len(q) \in {1, 2} /\ Len(g.target_qubits) = 0 THEN Raises(g, "IndexError")
    ELSE IF Len(q) = 1
         THEN FromNew(g, New_Controlled("CNOT", <<q[1], g.target_qubits[1]>>))
    ELSE IF Len(q) = 2
         THEN FromNew(g, New_TOFFOLI(<<q[1], q[2], g.target_qubits[1]>>))
    ELSE Gate_controlled_by(g, q)

\* Z.controlled_by
Z_controlled_by(g, q) ==
    IF Len(q) = 1 /\ Len(g.target_qubits) = 0 THEN Raises(g, "IndexError")
    ELSE IF Len(q) = 1
         THEN FromNew(g, New_Controlled("CZ", <<q[1], g.target_qubits[1]>>))
    ELSE Gate_controlled_by(g, q)

\* the class _Rn_.controlled_by / _Un_.controlled_by fall back to
ControlledClass(cls) == IF cls = "RX" THEN "CRX" ELSE "CU1"

\* _Rn_.controlled_by and _Un_.controlled_by
Rn_controlled_by(g, q) ==
    IF Len(q) = 1 /\ Len(g.target_qubits) = 0 THEN Raises(g, "IndexError")
    ELSE IF Len(q) = 1
         THEN FromNew(g, New_ControlledParam(ControlledClass(g.cls),
                                             <<q[1], g.target_qubits[1]>>,
                                             g.init_kwargs))
    ELSE Gate_controlled_by(g, q)

\* the controlled_by the class of g resolves to
controlled_by(g, q) ==
    IF g.cls = "X" THEN X_controlled_by(g, q)
    ELSE IF g.cls = "Z" THEN Z_controlled_by(g, q)
    ELSE IF g.cls \in OneQubitParam THEN Rn_controlled_by(g, q)
    ELSE Gate_controlled_by(g, q)

\* the _dagger the class of g resolves to: Gate._dagger, _Rn_._dagger,
\* U1._dagger, _CRn_._dagger, CU1._dagger, fSim._dagger, Unitary._dagger
\* (conjugate transpose, written as the negated matrix id) and
\* VariationalLayer._dagger (a copy of the layer)
dagger_helper(g) ==
    IF g.cls \in OneQubitParam
    THEN IF Len(g.target_qubits) = 0 THEN Raise(g, "IndexError")
         ELSE New_OneQubitParam(g.cls, <<g.target_qubits[1]>>, -g.theta)
    ELSE IF g.cls \in ControlledParam
    THEN IF g.control_qubits = {} \/ Len(g.target_qubits) = 0
         THEN Raise(g, "IndexError")
         ELSE New_ControlledParam(g.cls, <<control_qubits(g)[1],
                                           g.target_qubits[1]>>, -g.theta)
    ELSE IF g.cls = "fSim"
    THEN IF Len(g.target_qubits) # 2 THEN Raise(g, "ValueError")
         ELSE New_fSim(g.target_qubits, -g.theta)
    ELSE IF g.cls = "Unitary"
    THEN New_Unitary(g.target_qubits, -g.theta, Len(g.init_args))
    ELSE IF g.cls = "VariationalLayer" THEN Ok(g)
    ELSE Instantiate(g.cls, g.init_args, g.init_kwargs)

\* Gate.dagger
dagger(g) ==
    LET r == dagger_helper(g)
        r2 == control_qubits_setter(
                  [r.gate EXCEPT !.is_controlled_by = g.is_controlled_by],
                  control_qubits(g))
    IN IF r.exc # "none" THEN Raises(g, r.exc)
       ELSE IF r2.exc # "none" THEN Raises(g, r2.exc)
       ELSE Returns(g, r2.gate)

\* Gate.on_qubits, SpecialGate.on_qubits and Unitary.on_qubits
on_qubits(g, q) ==
    IF g.cls \in SpecialGate THEN Raises(g, "NotImplementedError")
    ELSE IF g.cls = "Unitary"
         THEN FromNew(g, New_Unitary(q, g.init_kwargs, Len(g.init_args)))
    ELSE IF g.cls = "VariationalLayer" THEN Raises(g, "TypeError")
    ELSE FromNew(g, Instantiate(g.cls, q, g.init_kwargs))

\* the property without its cache lookup: every read constructs
unitary_uncached(g) ==
    IF Len(qubits(g)) > 2
    THEN [self |-> g, exc |-> "NotImplementedError", m |-> <<>>, built |-> FALSE]
    ELSE LET c == construct_unitary(g)
         IN [self |-> [g EXCEPT !.unitary = c.m], exc |-> c.exc,
             m |-> c.m, built |-> TRUE]

\* Gate.unitary property; built tells whether construct_unitary was called
unitary(g) ==
    IF Len(qubits(g)) > 2
    THEN [self |-> g, exc |-> "NotImplementedError", m |-> <<>>, built |-> FALSE]
    ELSE IF g.unitary = <<>>
         THEN LET c == construct_unitary(g)
              IN [self |-> [g EXCEPT !.unitary = c.m], exc |-> c.exc,
                  m |-> c.m, built |-> TRUE]
         ELSE [self |-> g, exc |-> "none", m |-> g.unitary, built |-> FALSE]

\* TensorflowGate.prepare and MatrixGate.prepare
prepare(g) ==
    LET g1 == [g EXCEPT !.is_prepared = TRUE]
    IN IF g.cls \in MatrixGate /\ construct_unitary(g1).exc # "none"
       THEN Raise(g1, construct_unitary(g1).exc)
       ELSE Ok(g1)

\* BaseTensorflowGate.__call__ on a state of n qubits; Flatten.__call__
\* only binds nqubits and VariationalLayer.__call__ starts with
\* TensorflowGate._set_nqubits, which no class defines
call(g, n) ==
    IF g.cls = "VariationalLayer" THEN Raise(g, "AttributeError")
    ELSE LET g1 == IF g.nqubits = 0 THEN nqubits_setter(g, n).gate ELSE g
         IN IF g.cls = "Flatten" THEN Ok(g1)
            ELSE IF ~g1.is_prepared THEN prepare(g1)
            ELSE Ok(g1)

\* commutes testing only the targets of the first gate
commutes_onesided(g, h) ==
    IF g.cls \in SpecialGate THEN FALSE
    ELSE LET t1 == ToSet(g.target_qubits)
             t2 == ToSet(h.target_qubits)
             a == g.cls = h.cls /\ t1 = t2
             b == ~(t1 \cap ToSet(qubits(h)) # {})
         IN a \/ b

\* Gate.commutes and SpecialGate.commutes
commutes(g, h) ==
    IF g.cls \in SpecialGate THEN FALSE
    ELSE LET t1 == ToSet(g.target_qubits)
             t2 == ToSet(h.target_qubits)
             a == g.cls = h.cls /\ t1 = t2
             b == ~(t1 \cap ToSet(qubits(h)) # {} \/ t2 \cap ToSet(qubits(g)) # {})
         IN a \/ b

----------------------------------------------------------------------------
(* Actions: one per call made on the gate *)

Args(cls, q, c, x) == [cls |-> cls, q |-> q, c |-> c, x |-> x]

\* no gate has been constructed yet
NoGate == Gate("None")

\* the bookkeeping of a call named name with arguments a that leaves the
\* gate as g2, raises e (or "none"), returns r and reports f
Step(name, a, g2, e, r, rs, f) ==
    /\ gate' = g2
    /\ op' = name
    /\ args' = a
    /\ exc' = e
    /\ ret' = r
    /\ retself' = rs
    /\ flag' = f
    /\ changed' = (g2 # gate)
    /\ UNCHANGED <<other, application>>

\* a method can be called: a gate exists and the last call changed it
Callable == gate # NoGate /\ changed

\* the constructor arguments the model draws: every class, on the first
\* qubits, with the first parameter value
CtorArgs == {a \in [cls : Classes, q : LowSeqsUpTo(3), x : {1}] :
                Len(a.q) \in Arities(a.cls)}

\* gate = cls(q..., th): on success the name is bound to the new gate
Construct(cls, q, th) ==
    /\ gate = NoGate
    /\ changed
    /\ LET r == New(cls, q, th)
       IN Step("construct", Args(cls, q, <<>>, th),
               IF r.exc = "none" THEN r.gate ELSE gate, r.exc,
               IF r.exc = "none" THEN <<r.gate>> ELSE <<>>, r.exc = "none", FALSE)

\* gate.target_qubits = q
SetTargetQubits(q) ==
    /\ Callable
    /\ LET r == target_qubits_setter(gate, q)
       IN Step("target_qubits", Args(gate.cls, q, <<>>, 0), r.gate, r.exc,
               <<>>, FALSE, FALSE)

\* gate.control_qubits = c
SetControlQubits(c) ==
    /\ Callable
    /\ LET r == control_qubits_setter(gate, c)
       IN Step("control_qubits", Args(gate.cls, <<>>, c, 0), r.gate, r.exc,
               <<>>, FALSE, FALSE)

\* gate.set_targets_and_controls(q, c)
SetTargetsAndControls(q, c) ==
    /\ Callable
    /\ LET r == set_targets_and_controls(gate, q, c)
       IN Step("set_targets_and_controls", Args(gate.cls, q, c, 0), r.gate, r.exc,
               <<>>, FALSE, FALSE)

\* gate.nqubits = n
SetNqubits(n) ==
    /\ Callable
    /\ LET r == nqubits_setter(gate, n)
       IN Step("nqubits", Args(gate.cls, <<>>, <<>>, n), r.gate, r.exc,
               <<>>, FALSE, FALSE)

\* gate(state) for a state of n qubits
Call(n) ==
    /\ Callable
    /\ LET r == call(gate, n)
       IN Step("call", Args(gate.cls, <<>>, <<>>, n), r.gate, r.exc,
               <<>>, FALSE, FALSE)

\* gate.parameter = x
SetParameter(x, shapeok) ==
    /\ Callable
    /\ gate.cls \in ParametrizedGate
    /\ shapeok \/ gate.cls = "Unitary"
    /\ LET r == parameter_setter(gate, x, shapeok)
       IN Step("parameter", Args(gate.cls, <<>>, <<>>, x), r.gate, r.exc,
               <<>>, FALSE, gate.unitary # <<>> /\ r.gate.unitary = <<>>)

\* gate.unitary
ReadUnitary ==
    /\ Callable
    /\ LET r == unitary(gate)
       IN Step("unitary", Args(gate.cls, <<>>, <<>>, 0), r.self, r.exc,
               r.m, FALSE, r.built)

\* gate.controlled_by(q...)
ControlledBy(q) ==
    /\ Callable
    /\ LET r == controlled_by(gate, q)
       IN Step("controlled_by", Args(gate.cls, <<>>, q, 0), r.self, r.exc,
               r.ret, r.retself, FALSE)

\* gate.dagger()
Dagger ==
    /\ Callable
    /\ LET r == dagger(gate)
       IN Step("dagger", Args(gate.cls, <<>>, <<>>, 0), r.self, r.exc,
               r.ret, r.retself, FALSE)

\* gate.on_qubits(q...)
OnQubits(q) ==
    /\ Callable
    /\ LET r == on_qubits(gate, q)
       IN Step("on_qubits", Args(gate.cls, q, <<>>, 0), r.self, r.exc,
               r.ret, r.retself, FALSE)

----------------------------------------------------------------------------
(* Spec: a gate used through its public methods *)

Init ==
    /\ gate = NoGate
    /\ other = <<>>
    /\ op = "start"
    /\ args = Args("None", <<>>, <<>>, 0)
    /\ exc = "none"
    /\ ret = <<>>
    /\ retself = FALSE
    /\ flag = FALSE
    /\ changed = TRUE
    /\ chan = <<>>
    /\ input = <<>>
    /\ state = <<>>
    /\ trace = <<>>
    /\ circuit = <<>>

\* sizes of the states a gate is bound to or called on
StateSizes == {NumQubits, NumQubits + 1}

Methods ==
    \/ \E n \in StateSizes : SetNqubits(n)
    \/ \E n \in StateSizes : Call(n)
    \/ \E x \in Params, shapeok \in BOOLEAN : SetParameter(x, shapeok)
    \/ ReadUnitary
    \/ \E q \in SeqsUpTo(MaxControls) : ControlledBy(q)
    \/ Dagger
    \/ \E q \in SeqsUpTo(MaxControls) : OnQubits(q)

Next ==
    \/ \E a \in CtorArgs : Construct(a.cls, a.q, a.x)
    \/ Methods

Spec == Init /\ [][Next]_vars

----------------------------------------------------------------------------
(* SpecSetters: a gate whose qubits are also assigned directly *)

Setters ==
    \/ \E q \in AssignSeqsUpTo(MaxAssign) : SetTargetQubits(q)
    \/ \E c \in AssignSeqsUpTo(MaxAssign) : SetControlQubits(c)
    \/ \E q \in AssignSeqsUpTo(MaxAssign), c \in AssignSeqsUpTo(MaxAssign) :
           SetTargetsAndControls(q, c)
    \/ \E q \in SeqsUpTo(MaxAssign) : ControlledBy(q)
    \/ Dagger

NextSetters ==
    \/ \E a \in CtorArgs : Construct(a.cls, a.q, a.x)
    \/ Setters

SpecSetters == Init /\ [][NextSetters]_vars

----------------------------------------------------------------------------
(* SpecCommutes: two gates are built and asked whether they commute *)

\* other = cls(q..., th)
ConstructOther(cls, q, th) ==
    /\ Callable
    /\ other = <<>>
    /\ LET r == New(cls, q, th)
       IN /\ r.exc = "none"
          /\ other' = <<r.gate>>
          /\ op' = "construct_other"
          /\ args' = Args(cls, q, <<>>, th)
          /\ exc' = "none"
          /\ ret' = <<>>
          /\ retself' = FALSE
          /\ flag' = FALSE
          /\ changed' = TRUE
          /\ UNCHANGED <<gate, application>>

\* gate.commutes(other)
Commutes ==
    /\ other # <<>>
    /\ op # "commutes"
    /\ op' = "commutes"
    /\ args' = Args(gate.cls, <<>>, <<>>, 0)
    /\ exc' = "none"
    /\ ret' = <<>>
    /\ retself' = FALSE
    /\ flag' = commutes(gate, other[1])
    /\ changed' = FALSE
    /\ UNCHANGED <<gate, other, application>>

NextCommutes ==
    \/ \E a \in CtorArgs : Construct(a.cls, a.q, a.x)
    \/ \E q \in SeqsUpTo(MaxAssign) : other = <<>> /\ ControlledBy(q)
    \/ \E a \in CtorArgs : ConstructOther(a.cls, a.q, a.x)
    \/ Commutes

SpecCommutes == Init /\ [][NextCommutes]_vars

----------------------------------------------------------------------------
(* Properties *)

\* some id occurs twice in the sequence s
HasRepeat(s) == \E i, j \in 1..Len(s) : i < j /\ s[i] = s[j]

\* the ids the constructor of cls passes on as controls and as targets
CtorControlArgs(cls, q) ==
    IF cls \in ControlledPlain \cup ControlledParam THEN <<q[1]>>
    ELSE IF cls = "TOFFOLI" THEN <<q[1], q[2]>>
    ELSE <<>>
CtorTargetArgs(cls, q) ==
    SubSeq(q, Len(CtorControlArgs(cls, q)) + 1, Len(q))

\* C1: nqubits can be assigned once.  An assignment to an unbound gate stores
\* n and nstates = 2^n; an assignment to a gate that already has nqubits
\* (set directly or by a call on a state), with the same or another value,
\* raises RuntimeError and leaves nqubits and nstates as they were.
C1_NqubitsSetOnce ==
    [][op' = "nqubits" =>
          IF gate.nqubits = 0
          THEN /\ exc' = "none"
               /\ gate'.nqubits = args'.x
               /\ gate'.nstates = 2 ^ args'.x
          ELSE /\ exc' = "RuntimeError"
               /\ gate'.nqubits = gate.nqubits
               /\ gate'.nstates = gate.nstates
               /\ gate'.nstates = 2 ^ gate.nqubits]_vars

\* a second assignment of a different value was rejected
C1_Witness ==
    /\ op = "nqubits"
    /\ exc = "RuntimeError"
    /\ gate.nqubits # 0
    /\ gate.nqubits # args.x

\* C2: in every reachable state of a gate, also after a call that raised
\* ValueError, the targets and the controls share no qubit.
C2_TargetsControlsDisjoint ==
    gate # NoGate => ToSet(gate.target_qubits) \cap gate.control_qubits = {}

\* C3: a constructor or a direct assignment of targets and/or controls
\* raises ValueError exactly when an id is repeated among the assigned
\* targets or among the assigned controls, or when the resulting targets
\* and controls share an id; otherwise it succeeds.
C3_SetterRaisesIff ==
    /\ op = "construct" =>
          /\ exc \in {"none", "ValueError"}
          /\ (exc = "ValueError") =
                (\/ HasRepeat(CtorTargetArgs(args.cls, args.q))
                 \/ HasRepeat(CtorControlArgs(args.cls, args.q))
                 \/ ToSet(CtorTargetArgs(args.cls, args.q))
                       \cap ToSet(CtorControlArgs(args.cls, args.q)) # {})
    /\ op = "target_qubits" =>
          /\ exc \in {"none", "ValueError"}
          /\ (exc = "ValueError") =
                (HasRepeat(args.q) \/ ToSet(args.q) \cap gate.control_qubits # {})
    /\ op = "control_qubits" =>
          /\ exc \in {"none", "ValueError"}
          /\ (exc = "ValueError") =
                (HasRepeat(args.c)
                    \/ ToSet(args.c) \cap ToSet(gate.target_qubits) # {})
    /\ op = "set_targets_and_controls" =>
          /\ exc \in {"none", "ValueError"}
          /\ (exc = "ValueError") =
                (HasRepeat(args.q) \/ HasRepeat(args.c)
                    \/ ToSet(args.q) \cap ToSet(args.c) # {})

\* an assignment without repeated ids was rejected for the overlap alone
C3_Witness ==
    /\ op = "set_targets_and_controls"
    /\ exc = "ValueError"
    /\ ~HasRepeat(args.q)
    /\ ~HasRepeat(args.c)
    /\ ToSet(args.q) \cap ToSet(args.c) # {}

\* C4: controlled_by with one or more controls, on a gate that already has
\* controls, is bound to a qubit count or is prepared, raises an error and
\* returns no gate, whatever the class and the number of controls.
C4_ControlledByGuard ==
    [][(/\ op' = "controlled_by"
        /\ Len(args'.c) > 0
        /\ \/ gate.control_qubits # {}
           \/ gate.nqubits # 0
           \/ gate.is_prepared)
          => exc' # "none" /\ ret' = <<>>]_vars

\* C5: controlled_by returns CNOT for X with one control, TOFFOLI for X with
\* two, CZ for Z with one, and for RX / U1 with one control the controlled
\* rotation carrying the gate's current parameter; in every other case the
\* gate itself, generically controlled on the given qubits.
C5_ControlledByTypes ==
    (op = "controlled_by" /\ exc = "none") =>
        LET n == Len(args.c)
            r == ret[1]
            t == gate.target_qubits
        IN IF gate.cls = "X" /\ n = 1
           THEN r.cls = "CNOT" /\ r.control_qubits = {args.c[1]}
                   /\ r.target_qubits = t
           ELSE IF gate.cls = "X" /\ n = 2
           THEN r.cls = "TOFFOLI" /\ r.control_qubits = ToSet(args.c)
                   /\ r.target_qubits = t
           ELSE IF gate.cls = "Z" /\ n = 1
           THEN r.cls = "CZ" /\ r.control_qubits = {args.c[1]}
                   /\ r.target_qubits = t
           ELSE IF gate.cls \in OneQubitParam /\ n = 1
           THEN r.cls = ControlledClass(gate.cls)
                   /\ r.control_qubits = {args.c[1]}
                   /\ r.target_qubits = t
                   /\ r.theta = gate.theta
           ELSE /\ retself
                /\ r.cls = gate.cls
                /\ r.control_qubits = ToSet(args.c)
                /\ r.is_controlled_by = (n > 0)

\* the classes whose dagger negates the parameter
NegatedByDagger == OneQubitParam \cup ControlledParam \cup {"fSim"}

\* targets and controls of g are disjoint
WellFormed(g) == ToSet(g.target_qubits) \cap g.control_qubits = {}

\* C6: dagger, on a gate whose targets and controls are disjoint, returns a
\* new gate of the same class, with the same targets, controls and
\* is_controlled_by flag; for RX, U1, CRX, CU1 and fSim its parameter is
\* the gate's current parameter negated.  The gate itself is left as it was.
C6_Dagger ==
    [][(op' = "dagger" /\ WellFormed(gate)) =>
          /\ exc' = "none"
          /\ gate' = gate
          /\ ~retself'
          /\ ret'[1].cls = gate.cls
          /\ ret'[1].target_qubits = gate.target_qubits
          /\ ret'[1].control_qubits = gate.control_qubits
          /\ ret'[1].is_controlled_by = gate.is_controlled_by
          /\ gate.cls \in NegatedByDagger => ret'[1].theta = -gate.theta
          /\ gate.cls \in OneQubitPlain \cup ControlledPlain \cup {"TOFFOLI"}
                => ret'[1].theta = gate.theta]_vars

\* C7: on_qubits(q...) with as many distinct ids as the gate has qubits, on
\* a gate whose targets and controls are disjoint, returns a gate of the
\* same class acting on q, with as many controls, the same is_controlled_by
\* flag and the gate's current parameter; on a special gate it raises
\* NotImplementedError.
C7_OnQubits ==
    (op = "on_qubits" /\ WellFormed(gate)) =>
        IF gate.cls \in SpecialGate THEN exc = "NotImplementedError"
        ELSE (Len(args.q) = Len(qubits(gate)) /\ ~HasRepeat(args.q)) =>
                /\ exc = "none"
                /\ ret[1].cls = gate.cls
                /\ ToSet(qubits(ret[1])) = ToSet(args.q)
                /\ Cardinality(ret[1].control_qubits)
                      = Cardinality(gate.control_qubits)
                /\ ret[1].is_controlled_by = gate.is_controlled_by
                /\ ret[1].theta = gate.theta

\* C8: a read of unitary on a gate of more than 2 qubits raises
\* NotImplementedError and caches nothing.  On a gate of at most 2 qubits a
\* read with an empty cache constructs the matrix (from the class, the
\* current parameter and the controlled flag), returns it and leaves it
\* cached; a read with a filled cache returns the cached matrix without
\* constructing anything and leaves the gate as it was.
C8_UnitaryLazyCache ==
    [][op' = "unitary" =>
          IF Len(qubits(gate)) > 2
          THEN /\ exc' = "NotImplementedError"
               /\ ~flag'
               /\ ret' = <<>>
               /\ gate' = gate
          ELSE IF gate.unitary = <<>>
          THEN /\ flag'
               /\ exc' = "none" =>
                     /\ gate'.unitary = ret'
                     /\ gate.cls \notin NoMatrixClasses =>
                           ret' = <<Matrix(gate.cls, gate.theta,
                                           gate.is_controlled_by)>>
          ELSE /\ ~flag'
               /\ exc' = "none"
               /\ ret' = gate.unitary
               /\ gate' = gate]_vars

\* a second read of a rotation's unitary was served from the cache
C8_Witness ==
    /\ op = "unitary"
    /\ exc = "none"
    /\ ~flag
    /\ gate.cls \in OneQubitParam
    /\ ret # <<>>
    /\ ret = gate.unitary

\* C9: after a successful assignment to parameter, of any parametrized
\* class, the gate holds the new parameter and no cached unitary; a
\* unitary constructed by a read is built from the current parameter.
C9_ParameterClearsCache ==
    /\ (op = "parameter" /\ exc = "none") =>
          gate.unitary = <<>> /\ gate.theta = args.x
    /\ (op = "unitary" /\ exc = "none" /\ flag /\ ret # <<>>) =>
          ret[1].param = gate.theta

\* an assignment dropped a unitary that had been cached
C9_Witness ==
    /\ op = "parameter"
    /\ exc = "none"
    /\ flag
    /\ gate.unitary = <<>>

\* both gates are of the same class and have the same set of targets
SameTypeSameTargets(g, h) ==
    g.cls = h.cls /\ ToSet(g.target_qubits) = ToSet(h.target_qubits)

\* no target of g is a target or a control of h
TargetsAvoid(g, h) ==
    \A q \in ToSet(g.target_qubits) :
        q \notin ToSet(h.target_qubits) \cup h.control_qubits

\* g and h have no qubit, target or control, in common
AllQubitsDisjoint(g, h) ==
    (ToSet(g.target_qubits) \cup g.control_qubits)
        \cap (ToSet(h.target_qubits) \cup h.control_qubits) = {}

\* C10 (as stated): for two non-special gates commutes answers true exactly
\* when they have the same class and target set or when all their qubits,
\* targets and controls, are disjoint; sharing only a control gives false.
C10_CommutesAllQubits ==
    (/\ op = "commutes"
     /\ gate.cls \notin SpecialGate
     /\ other[1].cls \notin SpecialGate)
        => flag = (\/ SameTypeSameTargets(gate, other[1])
                   \/ AllQubitsDisjoint(gate, other[1]))

\* C10 (amended): for two non-special gates commutes answers true exactly
\* when they have the same class and target set or when the targets of each
\* are disjoint from all qubits of the other; controls in common do not
\* prevent the answer true.
C10_CommutesTargets ==
    (/\ op = "commutes"
     /\ gate.cls \notin SpecialGate
     /\ other[1].cls \notin SpecialGate)
        => flag = (\/ SameTypeSameTargets(gate, other[1])
                   \/ TargetsAvoid(gate, other[1])
                         /\ TargetsAvoid(other[1], gate))

\* two gates that differ in their targets and share a control commute
C10_Witness ==
    /\ op = "commutes"
    /\ flag
    /\ gate.cls \notin SpecialGate
    /\ other[1].cls \notin SpecialGate
    /\ ~SameTypeSameTargets(gate, other[1])
    /\ gate.control_qubits \cap other[1].control_qubits # {}

----------------------------------------------------------------------------
(* Decomposition of multi-controlled X (X.decompose) and its effect on     *)
(* computational basis states.  A basis state is a function from qubit ids  *)
(* to bits.                                                                 *)

NumDecompQubits == 7     \* basis states have qubits 0 .. NumDecompQubits-1
MinDecompControls == 3   \* fewest controls given to controlled_by before decompose
MaxDecompControls == 4   \* most controls given to controlled_by before decompose
MaxFree == 2             \* longest tuple of free qubits given to decompose

DecompQubits == 0 .. (NumDecompQubits - 1)
FreeSeqs == UNION {[1..k -> DecompQubits] : k \in 0..MaxFree}
ControlSeqs == {Sorted(S) : S \in {T \in SUBSET DecompQubits :
                    Cardinality(T) \in MinDecompControls..MaxDecompControls}}
BasisStates == [DecompQubits -> {0, 1}]

\* what a decompose call gives: the list it returns or the exception it raises
Listed(gs) == [exc |-> "none", gates |-> gs]
Failed(e) == [exc |-> e, gates |-> <<>>]

\* Python's s[i] (i >= 0), s[i:] and s[:i]
At(s, i) == s[i + 1]
From(s, i) == SubSeq(s, i + 1, Len(s))
Upto(s, i) == SubSeq(s, 1, i)

\* the lists of a list of lists, one after the other
RECURSIVE Concat(_)
Concat(ss) == IF ss = <<>> THEN <<>> ELSE Head(ss) \o Concat(Tail(ss))

\* a list in reverse order (gates1[::-1])
Reversed(s) == [i \in 1..Len(s) |-> s[Len(s) + 1 - i]]

\* the first exception among constructor results, "none" if all succeeded
FirstExc(rs) ==
    IF \A i \in 1..Len(rs) : rs[i].exc = "none" THEN "none"
    ELSE rs[CHOOSE i \in 1..Len(rs) :
               /\ rs[i].exc # "none"
               /\ \A j \in 1..(i - 1) : rs[j].exc = "none"].exc

\* TOFFOLI.decompose
TOFFOLI_decompose(g) ==
    LET c == control_qubits(g)
    IN <<New_TOFFOLI(<<c[1], c[2], g.target_qubits[1]>>).gate>>

\* RY(q, theta), theta counted in units of pi/4
New_RY(q, th) ==
    [Gate("RY") EXCEPT !.target_qubits = <<q>>, !.theta = th,
                       !.init_args = <<q>>, !.init_kwargs = th]

\* TOFFOLI.congruent
TOFFOLI_congruent(g, use_toffolis) ==
    IF use_toffolis THEN TOFFOLI_decompose(g)
    ELSE LET c == control_qubits(g)
             t == g.target_qubits[1]
             cnot(q) == New_Controlled("CNOT", <<q, t>>).gate
         IN <<New_RY(t, -1), cnot(c[2]), New_RY(t, -1), cnot(c[1]),
              New_RY(t, 1), cnot(c[2]), New_RY(t, 1)>>

\* decomp_gates.extend(decomp_gates) left out
decomp_gates_extend_skipped(d) == d

\* decomp_gates.extend(decomp_gates): the list followed by itself
decomp_gates_extend(d) == d \o d

\* X.decompose(*free, use_toffolis=use_toffolis)
RECURSIVE X_decompose(_, _, _)
X_decompose(g, free, use_toffolis) ==
    LET controls == control_qubits(g)
        target == g.target_qubits[1]
        m == Len(controls)
        n == m + 1 + Len(free)
        \* a recursive call x.decompose(*fr, use_toffolis=...): CNOT.decompose
        \* and TOFFOLI.decompose take no argument
        sub(x, fr) == IF x.cls = "X" THEN X_decompose(x, fr, use_toffolis)
                      ELSE Failed("TypeError")
    IN IF ToSet(free) \cap ToSet(qubits(g)) # {} THEN Failed("ValueError")
       ELSE IF g.nqubits # 0 /\ \E i \in 1..Len(free) : free[i] >= g.nqubits
            THEN Failed("ValueError")
       ELSE IF m < 3
            THEN LET r == controlled_by(New_OneQubit("X", <<target>>).gate, controls)
                 IN IF r.exc # "none" THEN Failed(r.exc) ELSE Listed(r.ret)
       ELSE IF n >= 2 * m - 1 /\ m >= 3
            THEN LET t1 == [k \in 1..(m - 3) |->
                              New_TOFFOLI(<<At(controls, m - 2 - (k - 1)),
                                            At(free, m - 4 - (k - 1)),
                                            At(free, m - 3 - (k - 1))>>)]
                     t2 == New_TOFFOLI(<<At(controls, 0), At(controls, 1), At(free, 0)>>)
                     t3 == New_TOFFOLI(<<At(controls, m - 1), At(free, m - 3), target>>)
                     e == FirstExc(t1 \o <<t2, t3>>)
                     gates1 == [k \in 1..(m - 3) |->
                                  TOFFOLI_congruent(t1[k].gate, use_toffolis)]
                     gates2 == TOFFOLI_congruent(t2.gate, use_toffolis)
                     first_toffoli == t3.gate
                 IN IF e # "none" THEN Failed(e)
                    ELSE Listed(decomp_gates_extend(
                             <<first_toffoli>> \o Concat(gates1) \o gates2
                                 \o Concat(Reversed(gates1))))
       ELSE IF Len(free) >= 1
            THEN LET m1 == n \div 2
                     free1 == From(controls, m1) \o <<target>> \o From(free, 1)
                     x1 == controlled_by(New_OneQubit("X", <<At(free, 0)>>).gate,
                                         Upto(controls, m1))
                     part1 == sub(x1.ret[1], free1)
                     free2 == Upto(controls, m1) \o From(free, 1)
                     controls2 == From(controls, m1) \o <<At(free, 0)>>
                     x2 == controlled_by(New_OneQubit("X", <<target>>).gate, controls2)
                     part2 == sub(x2.ret[1], free2)
                 IN IF x1.exc # "none" THEN Failed(x1.exc)
                    ELSE IF part1.exc # "none" THEN part1
                    ELSE IF x2.exc # "none" THEN Failed(x2.exc)
                    ELSE IF part2.exc # "none" THEN part2
                    ELSE Listed(decomp_gates_extend(part1.gates \o part2.gates))
       ELSE Failed("NotImplementedError")

\* g.decompose(*free, use_toffolis=...) as the class of g resolves it:
\* Gate.decompose, CNOT.decompose and TOFFOLI.decompose take no argument
decompose(g, free, use_toffolis) ==
    IF g.cls = "X" THEN X_decompose(g, free, use_toffolis)
    ELSE Failed("TypeError")

\* X, CNOT and TOFFOLI on a basis state: the target bit is flipped when every
\* control bit is 1
BasisApply(g, b) ==
    IF \A c \in g.control_qubits : b[c] = 1
    THEN [b EXCEPT ![g.target_qubits[1]] = 1 - @]
    ELSE b

\* the gates of a list applied in order
RECURSIVE BasisApplyAll(_, _)
BasisApplyAll(gs, b) ==
    IF gs = <<>> THEN b ELSE BasisApplyAll(Tail(gs), BasisApply(Head(gs), b))

BasisGates == {"X", "CNOT", "TOFFOLI"}

\* gate.decompose(*free, use_toffolis=ut)
Decompose(free, ut) ==
    /\ Callable
    /\ LET r == decompose(gate, free, ut)
       IN Step("decompose", Args(gate.cls, free, <<>>, IF ut THEN 1 ELSE 0),
               gate, r.exc, r.gates, FALSE, FALSE)

\* the returned list applied, gate after gate, to the basis state b
ApplyList(b) ==
    /\ op = "decompose"
    /\ exc = "none"
    /\ \A i \in 1..Len(ret) : ret[i].cls \in BasisGates
    /\ op' = "apply_list"
    /\ input' = b
    /\ state' = BasisApplyAll(ret, b)
    /\ UNCHANGED <<gate, other, args, exc, ret, retself, flag, changed, chan, trace, circuit>>

NextDecompose ==
    \/ \E t \in DecompQubits : Construct("X", <<t>>, 1)
    \/ \E c \in ControlSeqs :
          /\ ToSet(c) \cap ToSet(gate.target_qubits) = {}
          /\ ControlledBy(c)
    \/ \E free \in FreeSeqs, ut \in BOOLEAN : Decompose(free, ut)
    \/ \E b \in BasisStates : ApplyList(b)

SpecDecompose == Init /\ [][NextDecompose]_vars

\* the case of C11: 3 or 4 controls, distinct free qubits away from the gate,
\* enough of them for the Toffoli ladder, use_toffolis=True
EnoughFree ==
    LET m == Cardinality(gate.control_qubits)
        free == args.q
    IN /\ gate.cls = "X"
       /\ m \in {3, 4}
       /\ ~HasRepeat(free)
       /\ ToSet(free) \cap ToSet(qubits(gate)) = {}
       /\ m + 1 + Len(free) >= 2 * m - 1
       /\ args.x = 1

\* C11: with 3 or 4 controls and enough disjoint free qubits, decompose
\* returns only X, CNOT and TOFFOLI gates, and the list applied in order to a
\* basis state flips the target exactly when all controls are 1 and leaves
\* every other qubit, free qubits included, as it was.
C11_DecomposeEquivalent ==
    /\ (op = "decompose" /\ EnoughFree) =>
          /\ exc = "none"
          /\ \A i \in 1..Len(ret) : ret[i].cls \in BasisGates
    /\ (op = "apply_list" /\ EnoughFree) =>
          /\ state = BasisApply(gate, input)
          /\ \A q \in DecompQubits :
                state[q] = IF /\ q = gate.target_qubits[1]
                              /\ \A c \in gate.control_qubits : input[c] = 1
                           THEN 1 - input[q]
                           ELSE input[q]

\* four controls, all 1, both free qubits 1 before and after, target flipped
C11_Witness ==
    /\ op = "apply_list"
    /\ EnoughFree
    /\ Cardinality(gate.control_qubits) = 4
    /\ \A c \in gate.control_qubits : input[c] = 1
    /\ \A i \in 1..Len(args.q) : input[args.q[i]] = 1 /\ state[args.q[i]] = 1
    /\ state[gate.target_qubits[1]] = 1 - input[gate.target_qubits[1]]
    /\ Len(ret) = 8

----------------------------------------------------------------------------
(* Channels (KrausChannel, UnitaryChannel, PauliNoiseChannel, ResetChannel, *)
(* ThermalRelaxationChannel) on one qubit.  Numbers are exact rationals     *)
(* <<numerator, denominator>> with a positive denominator; a state is a     *)
(* state vector <<a0, a1>> or a density matrix <<r00, r01, r10, r11>> over  *)
(* a common denominator, or NaN in every entry.                             *)

Q(n, d) == <<n, d>>
QAdd(x, y) == <<x[1] * y[2] + y[1] * x[2], x[2] * y[2]>>
QSub(x, y) == <<x[1] * y[2] - y[1] * x[2], x[2] * y[2]>>
QMul(x, y) == <<x[1] * y[1], x[2] * y[2]>>
QLess(x, y) == x[1] * y[2] < y[1] * x[2]
QEq(x, y) == x[1] * y[2] = y[1] * x[2]

\* sum(p) of a list of rationals
RECURSIVE QSum(_)
QSum(p) == IF p = <<>> THEN Q(0, 1) ELSE QAdd(Head(p), QSum(Tail(p)))

\* 2x2 matrices, row by row.  Y stands for the Pauli Y without its factor i,
\* which cancels in U rho U^dagger
MatX == <<0, 1, 1, 0>>
MatY == <<0, -1, 1, 0>>
MatZ == <<1, 0, 0, -1>>
MatScale == <<1, 0, 0, 2>>      \* invertible, not unitary
MatProject == <<1, 0, 0, 0>>    \* the projector on |0>: not invertible

MatMul(A, B) ==
    <<A[1] * B[1] + A[2] * B[3], A[1] * B[2] + A[2] * B[4],
      A[3] * B[1] + A[4] * B[3], A[3] * B[2] + A[4] * B[4]>>
Transpose(A) == <<A[1], A[3], A[2], A[4]>>
Det(A) == A[1] * A[4] - A[2] * A[3]
Adjugate(A) == <<A[4], -A[2], -A[3], A[1]>>

\* a state: dm tells a density matrix from a state vector
State(dm, m, den) == [dm |-> dm, nan |-> FALSE, m |-> m, den |-> den]
NaNState(dm) == [dm |-> dm, nan |-> TRUE, m |-> <<>>, den |-> 1]

\* the same state, entry by entry
SameState(s, t) ==
    /\ s.dm = t.dm
    /\ s.nan = t.nan
    /\ ~s.nan => \A i \in 1..Len(s.m) : s.m[i] * t.den = t.m[i] * s.den

\* the entries over their lowest common denominator: the value of the state
\* is the same, the integers that carry it stay small
RECURSIVE Divisor(_, _)
Divisor(a, b) == IF b = 0 THEN a ELSE Divisor(b, a % b)
Magnitude(x) == IF x < 0 THEN -x ELSE x
RECURSIVE CommonDivisor(_, _)
CommonDivisor(m, d) ==
    IF m = <<>> THEN d ELSE CommonDivisor(Tail(m), Divisor(d, Magnitude(Head(m))))
Lowest(s) ==
    IF s.nan THEN s
    ELSE LET g == CommonDivisor(s.m, s.den)
         IN [s EXCEPT !.m = [i \in 1..Len(s.m) |-> s.m[i] \div g],
                      !.den = s.den \div g]

\* p * state
Scaled(p, s) ==
    IF s.nan THEN s
    ELSE Lowest([s EXCEPT !.m = [i \in 1..Len(s.m) |-> p[1] * s.m[i]],
                          !.den = p[2] * s.den])

\* new_state + state
Added(s, t) ==
    IF s.nan \/ t.nan THEN NaNState(s.dm)
    ELSE Lowest([s EXCEPT !.m = [i \in 1..Len(s.m) |-> s.m[i] * t.den + t.m[i] * s.den],
                          !.den = s.den * t.den])

\* tf.zeros_like(state)
Zeros(s) == State(s.dm, [i \in 1..(IF s.dm THEN 4 ELSE 2) |-> 0], 1)

\* apply_gate with the matrix A over denominator d: A v on a state vector,
\* A rho A^dagger on a density matrix (both kernel calls of _density_matrix_call)
Applied(A, d, s) ==
    IF s.nan THEN s
    ELSE IF s.dm
         THEN Lowest([s EXCEPT !.m = MatMul(MatMul(A, s.m), Transpose(A)),
                               !.den = d * d * s.den])
         ELSE Lowest([s EXCEPT !.m = <<A[1] * s.m[1] + A[2] * s.m[2],
                                       A[3] * s.m[1] + A[4] * s.m[2]>>,
                               !.den = d * s.den])

\* collapse_state on result 0, normalized: the state vector is divided by its
\* norm (basis states only), the density matrix by its trace; a zero norm or
\* trace gives NaN
Collapsed(s) ==
    IF s.nan THEN s
    ELSE IF s.dm
         THEN IF s.m[1] = 0 THEN NaNState(TRUE)
              ELSE State(TRUE, <<s.m[1], 0, 0, 0>>, s.m[1])
         ELSE IF s.m[1] = 0 THEN NaNState(FALSE)
              ELSE State(FALSE, <<1, 0>>, 1)

\* the states channels are applied to
Ket0 == State(FALSE, <<1, 0>>, 1)
Ket1 == State(FALSE, <<0, 1>>, 1)
Rho0 == State(TRUE, <<1, 0, 0, 0>>, 1)
Rho1 == State(TRUE, <<0, 0, 0, 1>>, 1)
RhoPlus == State(TRUE, <<1, 1, 1, 1>>, 2)
RhoMixed == State(TRUE, <<3, 0, 0, 1>>, 4)
InputStates == {Ket0, Ket1, Rho0, Rho1, RhoPlus, RhoMixed}

----------------------------------------------------------------------------
(* Channel objects.  A channel keeps its Kraus or unitary operators as gate *)
(* objects (gates) and, once prepared, the gates that undo them (inv_gates). *)

MaxOps == 2      \* most operators given to KrausChannel / UnitaryChannel
MaxTime == 3     \* t1 and t2 range over 0 .. MaxTime, time over -1 .. MaxTime - 2

\* a gate held by a channel: the matrix m / den it applies and its own
\* binding, preparation and density-matrix flag
SubGate(cls, m, den) ==
    [cls |-> cls, m |-> m, den |-> den,
     nqubits |-> 0, is_prepared |-> FALSE, density_matrix |-> FALSE]

GateX == SubGate("X", MatX, 1)
GateY == SubGate("Y", MatY, 1)
GateZ == SubGate("Z", MatZ, 1)
GateCollapse == SubGate("Collapse", MatProject, 1)

\* a (qubits, matrix) pair given to a channel on qubit 0: the matrix m is
\* dim x dim, and only dim = 2 fits one qubit
Operator(m, dim) == [m |-> m, dim |-> dim]

\* inv_gates entries: None, the gate itself, or a gate object of its own
NoInverse == [kind |-> "none", gate |-> <<>>]
SameGate == [kind |-> "same", gate |-> <<>>]
OwnGate(g) == [kind |-> "own", gate |-> g]

\* the fields of a channel after Gate.__init__ and BaseTensorflowGate.__init__
Channel(cls) ==
    [cls |-> cls, gates |-> <<>>, inv_gates |-> <<>>,
     probs |-> <<>>, psum |-> Q(0, 1),
     nqubits |-> 0, is_prepared |-> FALSE, density_matrix |-> FALSE,
     formula |-> "none", matrix |-> <<>>]

Built(c) == [chan |-> c, exc |-> "none"]
NotBuilt(e) == [chan |-> <<>>, exc |-> e]

\* KrausChannel._from_matrices on pairs that all name qubit 0
from_matrices(ops) ==
    IF \E i \in 1..Len(ops) : ops[i].dim # 2
    THEN [exc |-> "ValueError", gates |-> <<>>]
    ELSE [exc |-> "none",
          gates |-> [i \in 1..Len(ops) |-> SubGate("Unitary", ops[i].m, 1)]]

\* KrausChannel.__init__(gates): gates are gate objects (are_gates) or
\* (qubits, matrix) pairs; gates[0] of an empty list is an IndexError
KrausChannel_init(cls, gates, are_gates) ==
    IF Len(gates) = 0 THEN NotBuilt("IndexError")
    ELSE IF are_gates THEN Built([Channel(cls) EXCEPT !.gates = gates])
    ELSE LET r == from_matrices(gates)
         IN IF r.exc # "none" THEN NotBuilt(r.exc)
            ELSE Built([Channel(cls) EXCEPT !.gates = r.gates])

\* UnitaryChannel.__init__(p, gates)
UnitaryChannel_init(cls, p, gates, are_gates) ==
    IF Len(p) # Len(gates) THEN NotBuilt("ValueError")
    ELSE IF \E i \in 1..Len(p) : QLess(p[i], Q(0, 1)) \/ QLess(Q(1, 1), p[i])
         THEN NotBuilt("ValueError")
    ELSE LET r == KrausChannel_init(cls, gates, are_gates)
             psum == QSum(p)
         IN IF r.exc # "none" THEN r
            ELSE IF QLess(Q(1, 1), psum) \/ ~QLess(Q(0, 1), psum)
                 THEN NotBuilt("ValueError")
            ELSE Built([r.chan EXCEPT !.probs = p, !.psum = psum])

\* the (p, gate) pairs with p > 0, in order
RECURSIVE Positive(_)
Positive(s) ==
    IF s = <<>> THEN <<>>
    ELSE (IF QLess(Q(0, 1), Head(s).p) THEN <<Head(s)>> ELSE <<>>) \o Positive(Tail(s))

\* PauliNoiseChannel.__init__(q, px, py, pz): only probabilities p > 0 are kept
PauliNoiseChannel_init(px, py, pz) ==
    LET kept == Positive(<<[p |-> px, gate |-> GateX], [p |-> py, gate |-> GateY],
                           [p |-> pz, gate |-> GateZ]>>)
        probs == [i \in 1..Len(kept) |-> kept[i].p]
        gates == [i \in 1..Len(kept) |-> kept[i].gate]
    IN UnitaryChannel_init("PauliNoiseChannel", probs, gates, TRUE)

\* ResetChannel.__init__(q, p0, p1)
ResetChannel_init(p0, p1) ==
    UnitaryChannel_init("ResetChannel", <<p0, p1>>, <<GateCollapse, GateX>>, TRUE)

\* np.exp(-x) for a rational x >= 0, replaced by 1 / (1 + x): 1 at x = 0,
\* decreasing, inside (0, 1) for x > 0
ExpNeg(x) == Q(x[2], x[2] + x[1])

\* ThermalRelaxationChannel._calculate_probs
calculate_probs(t1, t2, time, excited_population) ==
    IF excited_population < 0 \/ excited_population > 1
       \/ time < 0 \/ t1 <= 0 \/ t2 <= 0 \/ t2 > 2 * t1
    THEN [exc |-> "ValueError", probs |-> <<>>, formula |-> "none"]
    ELSE LET p_reset == QSub(Q(1, 1), ExpNeg(Q(time, t1)))
             p0 == QMul(p_reset, Q(1 - excited_population, 1))
             p1 == QMul(p_reset, Q(excited_population, 1))
             rates == QSub(Q(1, t2), Q(1, t1))
         IN IF t1 < t2
            THEN [exc |-> "none", probs |-> <<ExpNeg(Q(time, t2)), p0, p1>>,
                  formula |-> "exp(-time/t2)"]
            ELSE [exc |-> "none",
                  probs |-> <<QMul(QMul(QSub(Q(1, 1), p_reset),
                                        QSub(Q(1, 1), ExpNeg(QMul(Q(time, 1), rates)))),
                                   Q(1, 2)), p0, p1>>,
                  formula |-> "(1-p_reset)(1-exp(-time(rate2-rate1)))/2"]

\* _ThermalRelaxationChannelA.__init__
ThermalRelaxationChannelA_init(t1, t2, time, excited_population) ==
    LET pr == calculate_probs(t1, t2, time, excited_population)
        r == UnitaryChannel_init("_ThermalRelaxationChannelA", pr.probs,
                                 <<GateZ, GateCollapse, GateX>>, TRUE)
    IN IF pr.exc # "none" THEN NotBuilt(pr.exc)
       ELSE IF r.exc # "none" THEN r
       ELSE Built([r.chan EXCEPT !.formula = pr.formula])

\* _ThermalRelaxationChannelB.__init__: probs holds exp_t2, preset0, preset1
ThermalRelaxationChannelB_init(t1, t2, time, excited_population) ==
    LET pr == calculate_probs(t1, t2, time, excited_population)
    IN IF pr.exc # "none" THEN NotBuilt(pr.exc)
       ELSE Built([Channel("_ThermalRelaxationChannelB") EXCEPT
                      !.probs = pr.probs, !.formula = pr.formula])

\* ThermalRelaxationChannel.__new__ with the t2 >= t1 test
ThermalRelaxationChannel_new_at_equal(t1, t2, time, excited_population) ==
    IF t2 >= t1 THEN ThermalRelaxationChannelB_init(t1, t2, time, excited_population)
    ELSE ThermalRelaxationChannelA_init(t1, t2, time, excited_population)

\* ThermalRelaxationChannel.__new__
ThermalRelaxationChannel_new(t1, t2, time, excited_population) ==
    IF t2 > t1 THEN ThermalRelaxationChannelB_init(t1, t2, time, excited_population)
    ELSE ThermalRelaxationChannelA_init(t1, t2, time, excited_population)

----------------------------------------------------------------------------
(* Preparation and application of channels.  The custom kernels work in     *)
(* place: a gate applied to the working state changes that state, which is  *)
(* why a channel applies the inverse of a branch before the next branch.    *)

\* what an application did, one event after the other
Event(ev, k) == [ev |-> ev, k |-> k]

\* BaseTensorflowGate.density_matrix setter on a gate held by a channel
SubGate_density_matrix(g, x) ==
    IF g.nqubits # 0 THEN Raise(g, "RuntimeError")
    ELSE Ok([g EXCEPT !.density_matrix = x])

\* Gate.nqubits setter on a gate held by a channel
SubGate_nqubits(g, n) ==
    IF g.nqubits # 0 THEN Raise(g, "RuntimeError")
    ELSE Ok([g EXCEPT !.nqubits = n])

\* BaseTensorflowGate.__call__ of a gate held by a channel, on a state of
\* the kind its density_matrix flag announces
SubGate_call(g, s) ==
    LET g1 == IF g.nqubits = 0 THEN [g EXCEPT !.nqubits = 1] ELSE g
        g2 == [g1 EXCEPT !.is_prepared = TRUE]
    IN [gate |-> g2,
        state |-> IF g.cls = "Collapse" THEN Collapsed(s) ELSE Applied(g.m, g.den, s)]

\* KrausChannel._invert: Unitary(np.linalg.inv(matrix), *targets)
KrausChannel_invert(g) ==
    LET det == Det(g.m)
        adj == Adjugate(g.m)
    IN IF det = 0 THEN [exc |-> "LinAlgError", inv |-> NoInverse]
       ELSE [exc |-> "none",
             inv |-> OwnGate(SubGate("Unitary",
                         [i \in 1..4 |-> (IF det < 0 THEN -1 ELSE 1) * g.den * adj[i]],
                         IF det < 0 THEN -det ELSE det))]

\* UnitaryChannel._invert (gate.dagger()), PauliNoiseChannel._invert (the gate
\* itself) and ResetChannel._invert (None for Collapse, else the gate itself)
invert(c, g) ==
    IF c.cls = "KrausChannel" THEN KrausChannel_invert(g)
    ELSE IF c.cls = "UnitaryChannel"
         THEN [exc |-> "none", inv |-> OwnGate(SubGate("Unitary", Transpose(g.m), g.den))]
    ELSE IF c.cls = "PauliNoiseChannel" THEN [exc |-> "none", inv |-> SameGate]
    ELSE IF g.cls = "Collapse" THEN [exc |-> "none", inv |-> NoInverse]
    ELSE [exc |-> "none", inv |-> SameGate]

\* g.density_matrix = ...; g.nqubits = ... for one gate of the loop
bind_gate(c, g) ==
    LET r == SubGate_density_matrix(g, c.density_matrix)
    IN IF r.exc # "none" THEN r ELSE SubGate_nqubits(r.gate, c.nqubits)

\* the loop of KrausChannel.prepare from gate k on
RECURSIVE prepare_gates(_, _, _, _)
prepare_gates(c, k, gates, invs) ==
    IF k > Len(gates) THEN [exc |-> "none", gates |-> gates, inv_gates |-> invs]
    ELSE LET iv == invert(c, gates[k])
             g == bind_gate(c, gates[k])
             i == IF iv.inv.kind = "own"
                  THEN OwnGate(bind_gate(c, iv.inv.gate).gate)
                  ELSE iv.inv
         IN IF iv.exc # "none"
            THEN [exc |-> iv.exc, gates |-> gates, inv_gates |-> invs]
            ELSE IF g.exc # "none"
            THEN [exc |-> g.exc, gates |-> gates, inv_gates |-> invs]
            ELSE prepare_gates(c, k + 1, [gates EXCEPT ![k] = g.gate], Append(invs, i))

\* KrausChannel.prepare (UnitaryChannel.prepare adds the seeding): the
\* inverses are built, every gate is put in the channel's mode and bound,
\* the last inverse is dropped; is_prepared is left as it was
KrausChannel_prepare(c) ==
    LET r == prepare_gates(c, 1, c.gates, <<>>)
    IN IF r.exc # "none" THEN [chan |-> [c EXCEPT !.gates = r.gates], exc |-> r.exc]
       ELSE [chan |-> [c EXCEPT !.gates = r.gates,
                                !.inv_gates = [r.inv_gates EXCEPT
                                                 ![Len(r.inv_gates)] = NoInverse]],
             exc |-> "none"]

\* MatrixGate.prepare of _ThermalRelaxationChannelB: the matrix of
\* _construct_unitary is cached
MatrixGate_prepare(c) ==
    [chan |-> [c EXCEPT !.is_prepared = TRUE, !.matrix = c.probs], exc |-> "none"]

\* the prepare the class of the channel resolves to
Channel_prepare(c) ==
    IF c.cls = "_ThermalRelaxationChannelB" THEN MatrixGate_prepare(c)
    ELSE KrausChannel_prepare(c)

\* what a call of a channel gives: the channel after the call, the exception,
\* the state returned (<<>> when it raised) and the events of the call
Outcome(c, e, s, t) == [chan |-> c, exc |-> e, state |-> s, trace |-> t]

\* one branch of a density-matrix loop: the gate on the working state, then
\* (after the caller has used the state) its inverse
branch_gate(c, k, s) ==
    LET r == SubGate_call(c.gates[k], s)
    IN [chan |-> [c EXCEPT !.gates[k] = r.gate], state |-> r.state]

\* the branch left without its inverse call
branch_inverse_skipped(c, k, s) == [chan |-> c, state |-> s, ran |-> FALSE]

\* if inv_gate is not None: state = inv_gate(state)
branch_inverse(c, k, s) ==
    LET inv == c.inv_gates[k]
    IN IF inv.kind = "none" THEN [chan |-> c, state |-> s, ran |-> FALSE]
       ELSE IF inv.kind = "same"
            THEN LET r == SubGate_call(c.gates[k], s)
                 IN [chan |-> [c EXCEPT !.gates[k] = r.gate], state |-> r.state,
                     ran |-> TRUE]
       ELSE LET r == SubGate_call(inv.gate, s)
            IN [chan |-> [c EXCEPT !.inv_gates[k] = OwnGate(r.gate)],
                state |-> r.state, ran |-> TRUE]

\* number of (gate, inv_gate) pairs zip() yields
Branches(c) == IF Len(c.gates) < Len(c.inv_gates) THEN Len(c.gates) ELSE Len(c.inv_gates)

\* KrausChannel._density_matrix_call from branch k on
RECURSIVE KrausChannel_dm_loop(_, _, _, _, _)
KrausChannel_dm_loop(c, k, s, new_state, t) ==
    IF k > Branches(c) THEN Outcome(c, "none", new_state, t)
    ELSE LET a == branch_gate(c, k, s)
             b == branch_inverse(a.chan, k, a.state)
         IN KrausChannel_dm_loop(b.chan, k + 1, b.state, Added(new_state, a.state),
                t \o <<Event("gate", k)>>
                  \o (IF b.ran THEN <<Event("inverse", k)>> ELSE <<>>))

\* UnitaryChannel._density_matrix_call from branch k on
RECURSIVE UnitaryChannel_dm_loop(_, _, _, _, _)
UnitaryChannel_dm_loop(c, k, s, new_state, t) ==
    IF k > Branches(c) \/ k > Len(c.probs) THEN Outcome(c, "none", new_state, t)
    ELSE LET a == branch_gate(c, k, s)
             b == branch_inverse(a.chan, k, a.state)
         IN UnitaryChannel_dm_loop(b.chan, k + 1, b.state,
                Added(new_state, Scaled(c.probs[k], a.state)),
                t \o <<Event("gate", k)>>
                  \o (IF b.ran THEN <<Event("inverse", k)>> ELSE <<>>))

\* _ThermalRelaxationChannelB._density_matrix_call: the cached 4x4 matrix on
\* the density matrix read as a vector (r00, r01, r10, r11).  The kernel
\* apply_two_qubit_gate is outside the sources; it is taken to apply the
\* matrix to the row and column index of the target, although prepare of
\* TensorflowGate hands it one shifted target and not the pair that
\* _calculate_qubits_tensor would build.
ThermalRelaxationChannelB_dm(c, s) ==
    LET e == c.matrix[1]
        p0 == c.matrix[2]
        p1 == c.matrix[3]
    IN IF s.nan THEN s
       ELSE Lowest(State(TRUE,
                  <<((p1[2] - p1[1]) * s.m[1] + p1[1] * s.m[4]) * p0[2] * e[2],
                    e[1] * s.m[2] * p0[2] * p1[2],
                    e[1] * s.m[3] * p0[2] * p1[2],
                    (p0[1] * s.m[1] + (p0[2] - p0[1]) * s.m[4]) * p1[2] * e[2]>>,
                  s.den * p0[2] * p1[2] * e[2]))

\* the _density_matrix_call the class of the channel resolves to
density_matrix_call(c, s, t) ==
    IF c.cls = "KrausChannel" THEN KrausChannel_dm_loop(c, 1, s, Zeros(s), t)
    ELSE IF c.cls = "_ThermalRelaxationChannelB"
         THEN Outcome(c, "none", ThermalRelaxationChannelB_dm(c, s), t)
    ELSE UnitaryChannel_dm_loop(c, 1, s, Scaled(QSub(Q(1, 1), c.psum), s), t)

\* looking up _set_nqubits on TensorflowGate: neither TensorflowGate nor
\* BaseTensorflowGate defines it, so the call raises before it runs
TensorflowGate_set_nqubits == "AttributeError"

\* state = gates[k](state) inside a state-vector call
sampled_gate(o, k) ==
    LET r == SubGate_call(o.chan.gates[k], o.state)
    IN [o EXCEPT !.chan.gates[k] = r.gate, !.state = r.state,
                 !.trace = @ \o <<Event("gate", k)>>]

\* np.random.random(): draw number n is taken from the source
drawn(o, n) == [o EXCEPT !.trace = @ \o <<Event("draw", n)>>]

\* the loop of UnitaryChannel._state_vector_call from branch k on
RECURSIVE UnitaryChannel_sv_loop(_, _, _)
UnitaryChannel_sv_loop(o, k, draws) ==
    IF k > Len(o.chan.probs) \/ k > Len(o.chan.gates) THEN o
    ELSE LET o1 == drawn(o, k)
         IN UnitaryChannel_sv_loop(
                IF QLess(draws[k], o.chan.probs[k]) THEN sampled_gate(o1, k) ELSE o1,
                k + 1, draws)

\* UnitaryChannel._state_vector_call
UnitaryChannel_state_vector_call(c, s, t, draws) ==
    IF TensorflowGate_set_nqubits # "none"
    THEN Outcome(c, TensorflowGate_set_nqubits, <<>>, t)
    ELSE UnitaryChannel_sv_loop(Outcome(c, "none", s, t), 1, draws)

\* the two trials of ResetChannel._state_vector_call, on draws n+1 and n+2
reset_trials(o, n, draws) ==
    LET collapse == Len(o.chan.gates) - 1
        flip == Len(o.chan.gates)
        o1 == drawn(o, n + 1)
        first == QLess(draws[n + 1], o.chan.probs[collapse])
        o2 == IF first THEN sampled_gate(o1, collapse) ELSE o1
        o3 == drawn(o2, n + 2)
        second == QLess(draws[n + 2], o.chan.probs[flip])
    IN IF ~second THEN o3
       ELSE sampled_gate(IF first THEN o3 ELSE sampled_gate(o3, collapse), flip)

\* ResetChannel._state_vector_call
ResetChannel_state_vector_call(c, s, t, n, draws) ==
    IF TensorflowGate_set_nqubits # "none"
    THEN Outcome(c, TensorflowGate_set_nqubits, <<>>, t)
    ELSE reset_trials(Outcome(c, "none", s, t), n, draws)

\* _ThermalRelaxationChannelA._state_vector_call
ThermalRelaxationChannelA_state_vector_call(c, s, t, draws) ==
    IF TensorflowGate_set_nqubits # "none"
    THEN Outcome(c, TensorflowGate_set_nqubits, <<>>, t)
    ELSE LET o1 == drawn(Outcome(c, "none", s, t), 1)
             o2 == IF QLess(draws[1], c.probs[1]) THEN sampled_gate(o1, 1) ELSE o1
         IN ResetChannel_state_vector_call(o2.chan, o2.state, o2.trace, 1, draws)

\* the _state_vector_call the class of the channel resolves to
state_vector_call(c, s, t, draws) ==
    IF c.cls \in {"KrausChannel", "_ThermalRelaxationChannelB"}
    THEN Outcome(c, "ValueError", <<>>, t)
    ELSE IF c.cls = "ResetChannel" THEN ResetChannel_state_vector_call(c, s, t, 0, draws)
    ELSE IF c.cls = "_ThermalRelaxationChannelA"
         THEN ThermalRelaxationChannelA_state_vector_call(c, s, t, draws)
    ELSE UnitaryChannel_state_vector_call(c, s, t, draws)

\* BaseTensorflowGate.__call__ of a channel on the one-qubit state s, with
\* the values the random source would give
Channel_call(c, s, draws) ==
    LET c1 == IF c.nqubits = 0 THEN [c EXCEPT !.nqubits = 1] ELSE c
        t1 == IF c.nqubits = 0 THEN <<Event("bind", 0)>> ELSE <<>>
        p == IF c1.is_prepared THEN [chan |-> c1, exc |-> "none"] ELSE Channel_prepare(c1)
        t2 == IF c1.is_prepared THEN t1 ELSE t1 \o <<Event("prepare", 0)>>
    IN IF p.exc # "none" THEN Outcome(p.chan, p.exc, <<>>, t2)
       ELSE IF p.chan.density_matrix THEN density_matrix_call(p.chan, s, t2)
       ELSE state_vector_call(p.chan, s, t2, draws)

\* BaseTensorflowGate.density_matrix setter of a channel
Channel_density_matrix(c, x) ==
    IF c.nqubits # 0 THEN [chan |-> c, exc |-> "RuntimeError"]
    ELSE [chan |-> [c EXCEPT !.density_matrix = x], exc |-> "none"]

----------------------------------------------------------------------------
(* Actions on a channel *)

\* arguments of channel constructors and calls
MaxDraws == 3    \* values the random source holds for one application

Probabilities == {Q(-1, 2), Q(0, 1), Q(1, 2), Q(1, 1), Q(3, 2)}
ProbSeqs == UNION {[1..k -> Probabilities] : k \in 0..MaxOps}
KrausOperators == {Operator(m, dim) : m \in {MatX, MatScale, MatProject}, dim \in {2, 4}}
UnitaryOperators == {Operator(MatX, 2), Operator(MatZ, 2), Operator(MatY, 4)}
Times == 0 .. MaxTime
GateTimes == (-1) .. (MaxTime - 2)
Populations == (-1) .. 2
Draws == [1..MaxDraws -> {Q(0, 1), Q(1, 2)}]

\* the constructor cls(...) ran and left the channel r.chan or raised r.exc
ChannelStep(name, cls, p, x, r) ==
    /\ op' = name
    /\ args' = Args(cls, p, x, 0)
    /\ chan' = r.chan
    /\ exc' = r.exc
    /\ changed' = (r.chan # chan)
    /\ input' = <<>>
    /\ state' = <<>>
    /\ trace' = <<>>
    /\ UNCHANGED <<gate, other, ret, retself, flag, circuit>>

NoChannel == chan = <<>> /\ op = "start"

\* KrausChannel([((0,), A1), ...])
ConstructKrausChannel(ops) ==
    /\ NoChannel
    /\ ChannelStep("construct", "KrausChannel", <<>>, ops,
                   KrausChannel_init("KrausChannel", ops, FALSE))

\* UnitaryChannel(p, [((0,), U1), ...])
ConstructUnitaryChannel(p, ops) ==
    /\ NoChannel
    /\ ChannelStep("construct", "UnitaryChannel", p, ops,
                   UnitaryChannel_init("UnitaryChannel", p, ops, FALSE))

\* PauliNoiseChannel(0, px, py, pz)
ConstructPauliNoiseChannel(px, py, pz) ==
    /\ NoChannel
    /\ ChannelStep("construct", "PauliNoiseChannel", <<px, py, pz>>, <<>>,
                   PauliNoiseChannel_init(px, py, pz))

\* ResetChannel(0, p0, p1)
ConstructResetChannel(p0, p1) ==
    /\ NoChannel
    /\ ChannelStep("construct", "ResetChannel", <<p0, p1>>, <<>>, ResetChannel_init(p0, p1))

\* ThermalRelaxationChannel(0, t1, t2, time, excited_population)
ConstructThermalRelaxationChannel(t1, t2, time, excited_population) ==
    /\ NoChannel
    /\ ChannelStep("construct", "ThermalRelaxationChannel",
                   <<t1, t2, time, excited_population>>, <<>>,
                   ThermalRelaxationChannel_new(t1, t2, time, excited_population))

\* a method of the channel can be called
ChannelCallable == chan # <<>> /\ changed

\* channel.density_matrix = x
SetDensityMatrix(x) ==
    /\ ChannelCallable
    /\ LET r == Channel_density_matrix(chan, x)
       IN ChannelStep("density_matrix", chan.cls, <<>>, <<x>>, r)

\* channel(s), while the random source holds the values draws
Apply(s, draws) ==
    /\ ChannelCallable
    /\ s.dm = chan.density_matrix
    /\ LET r == Channel_call(chan, s, draws)
           n == Cardinality({i \in 1..Len(r.trace) : r.trace[i].ev = "draw"})
       IN /\ op' = "apply"
          /\ args' = Args(chan.cls, SubSeq(draws, 1, n), <<>>, 0)
          /\ chan' = r.chan
          /\ exc' = r.exc
          /\ changed' = (r.chan # chan)
          /\ input' = s
          /\ state' = r.state
          /\ trace' = r.trace
          /\ UNCHANGED <<gate, other, ret, retself, flag, circuit>>

NextChannel ==
    \/ \E ops \in UNION {[1..k -> KrausOperators] : k \in 0..MaxOps} :
          ConstructKrausChannel(ops)
    \/ \E p \in ProbSeqs, ops \in UNION {[1..k -> UnitaryOperators] : k \in 0..MaxOps} :
          ConstructUnitaryChannel(p, ops)
    \/ \E px, py, pz \in Probabilities : ConstructPauliNoiseChannel(px, py, pz)
    \/ \E p0, p1 \in Probabilities : ConstructResetChannel(p0, p1)
    \/ \E t1, t2 \in Times, time \in GateTimes, pop \in Populations :
          ConstructThermalRelaxationChannel(t1, t2, time, pop)
    \/ \E x \in BOOLEAN : SetDensityMatrix(x)
    \/ \E s \in InputStates, draws \in Draws : Apply(s, draws)

SpecChannel == Init /\ [][NextChannel]_vars

----------------------------------------------------------------------------
(* Properties of channels *)

Events == {trace[i] : i \in 1..Len(trace)}

\* the events of the last application that are gate or inverse calls, in order
RECURSIVE Calls(_)
Calls(t) ==
    IF t = <<>> THEN <<>>
    ELSE (IF Head(t).ev \in {"gate", "inverse"} THEN <<Head(t)>> ELSE <<>>) \o Calls(Tail(t))

\* the last step applied the channel for the first time (it bound nqubits)
FirstApplication == op = "apply" /\ Event("bind", 0) \in Events

InUnitInterval(p) == ~QLess(p, Q(0, 1)) /\ ~QLess(Q(1, 1), p)

\* C12: a channel binds nqubits and runs prepare() once, on its first
\* application; every application that follows a successful one succeeds and
\* neither binds nor prepares again.
C12_PreparedOnce ==
    [][op' = "apply" =>
          IF chan.nqubits = 0
          THEN /\ chan'.nqubits # 0
               /\ Cardinality({i \in 1..Len(trace') : trace'[i].ev = "prepare"}) = 1
          ELSE (op = "apply" /\ exc = "none") =>
               /\ exc' = "none"
               /\ \A i \in 1..Len(trace') : trace'[i].ev \notin {"bind", "prepare"}
               /\ chan'.nqubits = chan.nqubits]_vars

\* sum over k of A_k rho A_k^dagger, every term from the given rho
RECURSIVE KrausSum(_, _)
KrausSum(gates, rho) ==
    IF gates = <<>> THEN Zeros(rho)
    ELSE Added(Applied(Head(gates).m, Head(gates).den, rho), KrausSum(Tail(gates), rho))

RECURSIVE WeightedSum(_, _, _)
WeightedSum(probs, gates, rho) ==
    IF gates = <<>> THEN Zeros(rho)
    ELSE Added(Scaled(Head(probs), Applied(Head(gates).m, Head(gates).den, rho)),
               WeightedSum(Tail(probs), Tail(gates), rho))

UnitaryChannelFormula(c, rho) ==
    Added(Scaled(QSub(Q(1, 1), QSum(c.probs)), rho), WeightedSum(c.probs, c.gates, rho))

\* gate 1, inverse 1, gate 2, inverse 2, ..., gate k
RestoringOrder(k) ==
    [i \in 1..(2 * k - 1) |->
        IF i % 2 = 1 THEN Event("gate", (i + 1) \div 2) ELSE Event("inverse", i \div 2)]

\* C15: a density-matrix application of a UnitaryChannel or PauliNoiseChannel
\* (the first one, and any one that returns) gives
\* (1 - sum p) rho + sum p_k U_k rho U_k^dagger; the inverse of each branch
\* but the last is applied right after it, so every branch starts from rho.
C15_UnitaryChannelDensity ==
    (/\ op = "apply"
     /\ chan.cls \in {"UnitaryChannel", "PauliNoiseChannel"}
     /\ chan.density_matrix
     /\ FirstApplication \/ exc = "none") =>
        /\ exc = "none"
        /\ SameState(state, UnitaryChannelFormula(chan, input))
        /\ Calls(trace) = RestoringOrder(Len(chan.gates))

\* two branches with different operators on a state they do not commute on
C15_Witness ==
    /\ op = "apply"
    /\ chan.cls \in {"UnitaryChannel", "PauliNoiseChannel"}
    /\ chan.density_matrix
    /\ exc = "none"
    /\ Len(chan.gates) = 2
    /\ chan.gates[1].m # chan.gates[2].m
    /\ input = RhoMixed
    /\ SameState(state, UnitaryChannelFormula(chan, input))
    /\ ~SameState(state, input)

ProbabilisticChannels == {"UnitaryChannel", "PauliNoiseChannel", "ResetChannel"}

\* C16: a probabilistic channel given a probability outside [0, 1] is not
\* built: the constructor raises ValueError.
C16_ProbabilityRange ==
    (op = "construct" /\ args.cls \in ProbabilisticChannels
       /\ \E i \in 1..Len(args.q) : ~InUnitInterval(args.q[i])) =>
        exc = "ValueError"

\* C17: a probabilistic channel whose probabilities all lie in [0, 1] and
\* sum to at most 1 is built, all-zero probabilities (the defaults) included.
C17_ValidProbabilitiesAccepted ==
    LET valid == /\ op = "construct"
                 /\ args.cls \in ProbabilisticChannels
                 /\ \A i \in 1..Len(args.q) : InUnitInterval(args.q[i])
                 /\ ~QLess(Q(1, 1), QSum(args.q))
        operators == /\ Len(args.c) = Len(args.q)
                     /\ Len(args.c) > 0
                     /\ \A j \in 1..Len(args.c) : args.c[j].dim = 2
    IN (valid /\ (args.cls = "UnitaryChannel" => operators)) => exc = "none"

\* C18: a state-vector application of a ResetChannel consumes exactly two
\* draws; Collapse runs when the first is below p0; when the second is below
\* p1, Collapse runs if it has not yet and then X; Collapse runs at most once
\* and X only after it.
C18_ResetChannelDraws ==
    (FirstApplication /\ chan.cls = "ResetChannel" /\ ~chan.density_matrix) =>
        /\ exc = "none"
        /\ Len(args.q) = 2
        /\ LET first == QLess(args.q[1], chan.probs[1])
               second == QLess(args.q[2], chan.probs[2])
           IN Calls(trace) = (IF first \/ second THEN <<Event("gate", 1)>> ELSE <<>>)
                             \o (IF second THEN <<Event("gate", 2)>> ELSE <<>>)

\* C19: ResetChannel(0, p0=1.0, p1=0.0) applied in density-matrix mode to a
\* one-qubit density matrix, |1><1| included, returns |0><0|.
C19_ResetToZero ==
    (FirstApplication /\ chan.cls = "ResetChannel" /\ chan.density_matrix
       /\ chan.probs = <<Q(1, 1), Q(0, 1)>>) =>
        /\ exc = "none"
        /\ SameState(state, Rho0)

\* C20: ThermalRelaxationChannel builds the sampling channel exactly when
\* t1 >= t2 and the superoperator channel exactly when t1 < t2, with the
\* dephasing factor of _calculate_probs chosen by the same comparison; the
\* superoperator channel applied to a state vector raises ValueError.
C20_ThermalDispatch ==
    /\ (op = "construct" /\ args.cls = "ThermalRelaxationChannel" /\ exc = "none") =>
          LET t1 == args.q[1]
              t2 == args.q[2]
          IN /\ chan.cls = "_ThermalRelaxationChannelA" <=> t1 >= t2
             /\ chan.cls = "_ThermalRelaxationChannelB" <=> t1 < t2
             /\ chan.formula = "exp(-time/t2)" <=> t1 < t2
    /\ (op = "apply" /\ chan.cls = "_ThermalRelaxationChannelB"
          /\ ~chan.density_matrix) => exc = "ValueError"

\* t1 = t2: the sampling channel, with the dephasing factor of t1 >= t2
C20_Witness ==
    /\ op = "construct"
    /\ args.cls = "ThermalRelaxationChannel"
    /\ exc = "none"
    /\ args.q[1] = args.q[2]
    /\ chan.cls = "_ThermalRelaxationChannelA"
    /\ chan.formula # "exp(-time/t2)"

----------------------------------------------------------------------------
(* Construction of the thermal relaxation channel.                          *)

\* C21: ThermalRelaxationChannel(q, t1, t2, time, excited_population) is
\* built for every tuple with t1 > 0, t2 > 0, t2 <= 2 * t1, time >= 0 (zero
\* included) and excited_population in [0, 1], and raises ValueError for
\* every other tuple.
C21_ThermalConstruction ==
    (op = "construct" /\ args.cls = "ThermalRelaxationChannel") =>
        LET t1 == args.q[1]
            t2 == args.q[2]
            time == args.q[3]
            excited_population == args.q[4]
            valid == /\ t1 > 0
                     /\ t2 > 0
                     /\ t2 <= 2 * t1
                     /\ time >= 0
                     /\ excited_population >= 0
                     /\ excited_population <= 1
        IN IF valid THEN exc = "none" /\ chan # <<>>
           ELSE exc = "ValueError"

----------------------------------------------------------------------------
(* The kernels apply_swap and apply_zpow.  The compiled operators are not   *)
(* part of the sources; what they compute is taken from the reference       *)
(* results their tests build with numpy.  An amplitude is kept symbolic:    *)
(* id names the amplitude of the input it came from, phases counts the      *)
(* factors of phase it was multiplied by.                                   *)

MaxKernelQubits == 4      \* qubits of the states the kernels are applied to
MaxApplications == 2      \* applications of a kernel to one state

\* itertools.product([0, 1], repeat=n) as a list, the last factor running
\* fastest: also the order in which reshape(n * (2,)) reads the flat buffer
RECURSIVE product(_)
product(n) ==
    IF n = 0 THEN << <<>> >>
    ELSE LET r == product(n - 1)
         IN [k \in 1..(2 * Len(r)) |-> Append(r[(k + 1) \div 2], (k + 1) % 2)]

Amplitude(i) == [id |-> i, phases |-> 0]

\* a state of n qubits with 2^n distinct amplitudes
KernelState(n) == [j \in 1..Pow2(n) |-> Amplitude(j - 1)]

\* the position of a target among the axes left by the slicer: one less for
\* every control below it
reduced_target(t, controls) == t - Cardinality({q \in controls : q < t})

\* a slicer that takes all of every axis
swap_slicer_all(conf, controls) == TRUE

\* the slicer of the reference: 1 on every control axis, all of every other
swap_slicer(conf, controls) == \A q \in controls : conf[q + 1] = 1

\* the reference result of apply_swap(state, nqubits, targets, controls):
\* the slice with every control axis at 1, transposed in the two target axes
apply_swap(s, n, targets, controls) ==
    LET confs == product(n)
        target0 == reduced_target(targets[1], controls)
        target1 == reduced_target(targets[2], controls)
        axes == Sorted((0..(n - 1)) \ controls)
        order == [k \in 0..(Len(axes) - 1) |->
                     IF k = target0 THEN target1
                     ELSE IF k = target1 THEN target0 ELSE k]
        slicer(c) == swap_slicer(c, controls)
        reduced(c) == [k \in 1..Len(axes) |-> c[axes[k] + 1]]
        \* np.transpose(a, order)[x] is a[y] with y[order[k]] = x[k]
        transposed(x) == [k \in 1..Len(axes) |->
                             x[(CHOOSE j \in 0..(Len(axes) - 1) : order[j] = k - 1) + 1]]
    IN [j \in 1..Len(s) |->
           IF slicer(confs[j])
           THEN s[CHOOSE i \in 1..Len(s) :
                      /\ slicer(confs[i])
                      /\ reduced(confs[i]) = transposed(reduced(confs[j]))]
           ELSE s[j]]

\* the entries with the target at 1, whatever the controls
zpow_selected_target_only(conf, target, controls) == conf[target + 1] = 1

\* the entries of the diagonal that hold the phase: the configurations with
\* the target and every control at 1
zpow_selected(conf, target, controls) ==
    \A q \in controls \cup {target} : conf[q + 1] = 1

\* the reference result of apply_zpow(state, phase, nqubits, target, controls)
apply_zpow(s, n, target, controls) ==
    LET confs == product(n)
    IN [j \in 1..Len(s) |->
           IF zpow_selected(confs[j], target, controls)
           THEN [s[j] EXCEPT !.phases = @ + 1]
           ELSE s[j]]

KernelQubits(n) == 0..(n - 1)

\* a state of n qubits is made and the arguments of the kernel are chosen
KernelInput(name, n, targets, controls) ==
    /\ op = "start"
    /\ gate = NoGate
    /\ chan = <<>>
    /\ op' = "kernel_input"
    /\ args' = Args(name, targets, controls, n)
    /\ input' = KernelState(n)
    /\ state' = KernelState(n)
    /\ trace' = <<>>
    /\ changed' = TRUE
    /\ UNCHANGED <<gate, other, exc, ret, retself, flag, chan, circuit>>

\* the kernel acted on the state; trace keeps the states it was given
KernelStep(name, s) ==
    /\ op' = name
    /\ state' = s
    /\ trace' = Append(trace, state)
    /\ changed' = TRUE
    /\ UNCHANGED <<gate, other, args, exc, ret, retself, flag, chan, input, circuit>>

\* state = op.apply_swap(state, nqubits, targets, controls)
ApplySwap ==
    /\ op \in {"kernel_input", "apply_swap"}
    /\ args.cls = "apply_swap"
    /\ Len(trace) < MaxApplications
    /\ KernelStep("apply_swap", apply_swap(state, args.x, args.q, args.c))

\* state = op.apply_zpow(state, phase, nqubits, target, controls)
ApplyZpow ==
    /\ op \in {"kernel_input", "apply_zpow"}
    /\ args.cls = "apply_zpow"
    /\ Len(trace) < MaxApplications
    /\ KernelStep("apply_zpow", apply_zpow(state, args.x, args.q[1], args.c))

NextKernel ==
    \/ \E n \in 2..MaxKernelQubits :
          \E t0, t1 \in KernelQubits(n) :
             \E controls \in SUBSET (KernelQubits(n) \ {t0, t1}) :
                t0 # t1 /\ KernelInput("apply_swap", n, <<t0, t1>>, controls)
    \/ \E n \in 1..MaxKernelQubits :
          \E t \in KernelQubits(n) :
             \E controls \in SUBSET (KernelQubits(n) \ {t}) :
                KernelInput("apply_zpow", n, <<t>>, controls)
    \/ ApplySwap
    \/ ApplyZpow

SpecKernel == Init /\ [][NextKernel]_vars

\* bit n - 1 - q of the index i: the value of qubit q
QubitBit(i, n, q) == (i \div Pow2(n - 1 - q)) % 2

\* every control bit of the index i is 1
ControlsSet(i, n, controls) == \A q \in controls : QubitBit(i, n, q) = 1

\* the index i with the bits of the qubits t0 and t1 exchanged
Exchanged(i, n, t0, t1) ==
    i - QubitBit(i, n, t0) * Pow2(n - 1 - t0) - QubitBit(i, n, t1) * Pow2(n - 1 - t1)
      + QubitBit(i, n, t1) * Pow2(n - 1 - t0) + QubitBit(i, n, t0) * Pow2(n - 1 - t1)

\* C22: apply_swap exchanges the amplitudes of the indices that differ in
\* exactly the two target bits and have every control bit 1, leaves every
\* other amplitude where it is, and applied twice gives back the state.
C22_ApplySwap ==
    (op = "apply_swap") =>
        LET n == args.x
            before == trace[Len(trace)]
        IN /\ \A i \in 0..(Pow2(n) - 1) :
                 state[i + 1] =
                    IF ControlsSet(i, n, args.c)
                    THEN before[Exchanged(i, n, args.q[1], args.q[2]) + 1]
                    ELSE before[i + 1]
           /\ Len(trace) = 2 => state = input

\* a controlled swap on four qubits moved amplitudes and a second one moved
\* them back
C22_Witness ==
    /\ op = "apply_swap"
    /\ args.x = 4
    /\ args.c # {}
    /\ Len(trace) = 2
    /\ trace[2] # input
    /\ state = input

\* C23: apply_zpow multiplies by the phase exactly the amplitudes whose index
\* has the target bit and every control bit 1, and leaves every other
\* amplitude unchanged.
C23_ApplyZpow ==
    (op = "apply_zpow") =>
        LET n == args.x
            before == trace[Len(trace)]
        IN \A i \in 0..(Pow2(n) - 1) :
              state[i + 1] =
                 IF QubitBit(i, n, args.q[1]) = 1 /\ ControlsSet(i, n, args.c)
                 THEN [before[i + 1] EXCEPT !.phases = @ + 1]
                 ELSE before[i + 1]

\* a controlled phase on four qubits: some amplitude with the target bit 1
\* kept its value because a control bit is 0
C23_Witness ==
    /\ op = "apply_zpow"
    /\ args.x = 4
    /\ args.c # {}
    /\ \E i \in 0..(Pow2(args.x) - 1) :
          /\ QubitBit(i, args.x, args.q[1]) = 1
          /\ state[i + 1].phases = 0
    /\ \E i \in 0..(Pow2(args.x) - 1) : state[i + 1].phases = 1

----------------------------------------------------------------------------
(* The kernel matrix of a matrix gate.  MatrixGate keeps, next to the       *)
(* cached unitary, the matrix its kernel is called with; the gate record    *)
(* gets the field matrix for it (<<>> is None).                             *)

\* classes of MatrixGate that take a parameter and can be applied
ParametrizedMatrixGate == (MatrixGate \cap ParametrizedGate) \ {"VariationalLayer"}

\* MatrixGate.__init__: self.matrix = None
MatrixGate_init(g) == g @@ [matrix |-> <<>>]

\* MatrixGate.prepare (U1, fSim and GeneralizedfSim store a compressed form
\* of the same matrix): TensorflowGate.prepare, then the matrix is built
\* from the parameter the gate has now
prepare_matrix(g) ==
    LET r == prepare(g)
    IN IF r.exc # "none" THEN r
       ELSE Ok([r.gate EXCEPT !.matrix = construct_unitary(r.gate).m])

\* BaseTensorflowGate.__call__ of a matrix gate on a state of n qubits; used
\* is the matrix MatrixGate._state_vector_call hands to the kernel
call_matrix(g, n) ==
    LET g1 == IF g.nqubits = 0 THEN nqubits_setter(g, n).gate ELSE g
        r == IF ~g1.is_prepared THEN prepare_matrix(g1) ELSE Ok(g1)
    IN [gate |-> r.gate, exc |-> r.exc,
        used |-> IF r.exc = "none" THEN r.gate.matrix ELSE <<>>]

\* gate = cls(q..., th) for a parametrized matrix gate
ConstructMatrixGate(cls, q, th) ==
    /\ cls \in ParametrizedMatrixGate
    /\ gate = NoGate
    /\ changed
    /\ LET r == New(cls, q, th)
           g == MatrixGate_init(r.gate)
       IN Step("construct", Args(cls, q, <<>>, th),
               IF r.exc = "none" THEN g ELSE gate, r.exc,
               IF r.exc = "none" THEN <<g>> ELSE <<>>, r.exc = "none", FALSE)

\* gate(state) for a state of n qubits; ret is the matrix the kernel got
ApplyMatrix(n) ==
    /\ Callable
    /\ LET r == call_matrix(gate, n)
       IN Step("apply_matrix", Args(gate.cls, <<>>, <<>>, n), r.gate, r.exc,
               r.used, FALSE, FALSE)

NextMatrix ==
    \/ \E a \in CtorArgs : ConstructMatrixGate(a.cls, a.q, a.x)
    \/ \E n \in StateSizes : ApplyMatrix(n)
    \/ \E x \in Params, shapeok \in BOOLEAN : SetParameter(x, shapeok)

SpecMatrix == Init /\ [][NextMatrix]_vars

\* C24: when the parameter of a prepared matrix gate was assigned a new
\* value, the next application hands the kernel the matrix of the new
\* parameter, not the one cached at preparation.
C24_MatrixFollowsParameter ==
    [][(/\ op = "parameter"
        /\ exc = "none"
        /\ gate.is_prepared
        /\ op' = "apply_matrix"
        /\ exc' = "none") =>
           ret' = construct_unitary(gate').m]_vars

----------------------------------------------------------------------------
(* The cached unitary and controlled_by *)

\* C25: a cached unitary is the matrix construct_unitary returns for the
\* gate as it is now (current parameter, current controls); a read of
\* unitary on a one-qubit gate that controlled_by gave one control returns
\* the controlled 4x4 matrix, also when the cache was filled before.  States
\* left by a call that raised are not looked at.
C25_CachedUnitaryCurrent ==
    /\ (gate # NoGate /\ gate.unitary # <<>> /\ exc = "none") =>
          gate.unitary = construct_unitary(gate).m
    /\ (/\ op = "unitary"
        /\ exc = "none"
        /\ gate.cls \notin NoMatrixClasses
        /\ gate.is_controlled_by
        /\ Len(gate.target_qubits) = 1
        /\ Cardinality(gate.control_qubits) = 1) =>
          ret = <<Matrix(gate.cls, gate.theta, TRUE)>>

----------------------------------------------------------------------------
(* Symmetry of commutes *)

\* C26: commutes is symmetric: g.commutes(h) and h.commutes(g) give the same
\* answer for any two gates, special gates (Flatten) included.
C26_CommutesSymmetric ==
    (op = "commutes") => (flag <=> commutes(other[1], gate))

----------------------------------------------------------------------------
(* Qubit assignments that raise *)

\* C27: when an assignment to target_qubits or control_qubits,
\* set_targets_and_controls or controlled_by raises ValueError, the gate has
\* the target tuple, the control set and the is_controlled_by flag it had
\* before the call.
C27_QubitsKeptOnValueError ==
    [][(/\ op' \in {"target_qubits", "control_qubits",
                    "set_targets_and_controls", "controlled_by"}
        /\ exc' = "ValueError") =>
           /\ gate'.target_qubits = gate.target_qubits
           /\ gate'.control_qubits = gate.control_qubits
           /\ gate'.is_controlled_by = gate.is_controlled_by]_vars

----------------------------------------------------------------------------
(* Termination of X.decompose *)

\* C28: for a multi-controlled X with at least 3 controls and at least one
\* free qubit away from its own qubits, decompose returns a gate list and
\* raises nothing, also when the free qubits are too few for the Toffoli
\* ladder and the controls are split over two recursive calls.
C28_DecomposeReturns ==
    (/\ op = "decompose"
     /\ gate.cls = "X"
     /\ Cardinality(gate.control_qubits) >= 3
     /\ Len(args.q) >= 1
     /\ ~HasRepeat(args.q)
     /\ ToSet(args.q) \cap ToSet(qubits(gate)) = {}) =>
        /\ exc = "none"
        /\ ret # <<>>

----------------------------------------------------------------------------
(* TensorflowDistributedCircuit._set_gates: the gates of the queue are      *)
(* split into groups, each with its own list of global qubits.  The loop    *)
(* is followed step by step.  A gate of the queue is its position (its      *)
(* identity as an object) with the set of its qubits, controls and targets. *)

NumDistQubits == 4     \* most qubits of a distributed circuit
MaxGlobal == 2         \* most global qubits (log2 of the number of devices)
MaxQueue == 2          \* most gates in the queue
MaxGateQubits == 3     \* most qubits one gate of the queue acts on

\* TensorflowDistributedCircuit.__init__ with the gates added, and the
\* locals of _set_gates before its first statement
DistributedCircuit(nqubits, nglobal, qubit_sets) ==
    [nqubits |-> nqubits,
     nglobal |-> nglobal,
     queue |-> [i \in 1..Len(qubit_sets) |-> [id |-> i, qubits |-> qubit_sets[i]]],
     it |-> 0,                      \* gates the iterator has handed out
     gate |-> <<>>,                 \* the local gate
     target_qubits |-> {},
     global_qubits |-> {},
     queues |-> <<>>,               \* the local queues: the groups
     global_qubits_list |-> <<>>,
     device_queues |-> <<>>,        \* self.queues[device], the same for each
     overflow |-> FALSE,
     pc |-> "call"]

\* next(queue) can hand out a gate
HasNext(c) == c.it < Len(c.queue)

\* gate = next(queue)
next_gate(c) == [c EXCEPT !.it = @ + 1, !.gate = c.queue[c.it + 1]]

\* target_qubits = set(gate.qubits); global_qubits -= target_qubits
subtract_targets(c) ==
    [c EXCEPT !.target_qubits = c.gate.qubits,
              !.global_qubits = @ \ c.gate.qubits]

\* queues[-1].append(gate)
append_gate(c) ==
    IF c.overflow THEN c
    ELSE [c EXCEPT !.queues[Len(c.queues)] = Append(@, c.gate)]

\* list(sorted(s))[k:] as a set: s without its k smallest elements
SortedFrom(s, k) == {x \in s : Cardinality({y \in s : y < x}) >= k}

\* list(sorted(s))[:k]
SortedUpto(s, k) == SubSeq(Sorted(s), 1, IF k < Cardinality(s) THEN k ELSE Cardinality(s))

\* except StopIteration: the last list of global qubits is cut to nglobal
\* and stored
StopIteration(c) ==
    LET g == IF Cardinality(c.global_qubits) > c.nglobal
             THEN SortedUpto(c.global_qubits, c.nglobal)
             ELSE Sorted(c.global_qubits)
    IN [c EXCEPT !.global_qubits = ToSet(g),
                 !.global_qubits_list =
                     IF c.overflow THEN @ ELSE Append(@, g),
                 !.pc = "compile"]

\* queues.append([]); self.global_qubits_list.append(...); global_qubits =
\* set(all_qubits).  A run that ends closes at most one group per gate, so
\* its lists have at most MaxQueue + 1 entries; the lists stop growing
\* there, so that a run without end visits finitely many states (overflow
\* then tells that entries were left out).
close_group(c) ==
    LET full == Len(c.global_qubits_list) >= MaxQueue + 1
    IN [c EXCEPT !.queues = IF full THEN @ ELSE Append(@, <<>>),
                 !.global_qubits_list =
                     IF full THEN @ ELSE Append(@, Sorted(c.global_qubits)),
                 !.overflow = @ \/ full,
                 !.global_qubits = 0..(c.nqubits - 1),
                 !.pc = "while"]

\* the branch of a gate that leaves fewer than nglobal qubits: qubits of the
\* gate are given back to the global ones
give_back(c) ==
    [c EXCEPT !.global_qubits =
        @ \cup SortedFrom(c.target_qubits,
                          c.nglobal - Cardinality(c.global_qubits))]

\* the step of the circuit record c to d
CircuitStep(name, d, e) ==
    /\ op' = name
    /\ circuit' = d
    /\ exc' = e
    /\ changed' = TRUE
    /\ UNCHANGED <<gate, other, args, ret, retself, flag, chan, input, state, trace>>

\* circuit._set_gates() is called: the locals are set and the first gate is
\* asked for
SetGates(nqubits, nglobal, qubit_sets) ==
    /\ op = "start"
    /\ gate = NoGate
    /\ chan = <<>>
    /\ circuit = <<>>
    /\ LET c == [DistributedCircuit(nqubits, nglobal, qubit_sets) EXCEPT
                    !.queues = << <<>> >>,
                    !.global_qubits = 0..(nqubits - 1)]
       IN CircuitStep("set_gates",
                      IF HasNext(c) THEN [next_gate(c) EXCEPT !.pc = "while"]
                      ELSE StopIteration(c),
                      "none")

\* the head of while True: the qubits of the gate leave the global ones
WhileTrue ==
    /\ circuit # <<>>
    /\ circuit.pc = "while"
    /\ CircuitStep("while", [subtract_targets(circuit) EXCEPT !.pc = "inner"], "none")

\* one turn of the inner loop: more than nglobal qubits are left, the gate
\* joins the group and the next gate is looked at
InnerLoop ==
    /\ circuit # <<>>
    /\ circuit.pc = "inner"
    /\ Cardinality(circuit.global_qubits) > circuit.nglobal
    /\ LET c == append_gate(circuit)
       IN CircuitStep("inner",
                      IF HasNext(c) THEN subtract_targets(next_gate(c))
                      ELSE StopIteration(c),
                      "none")

\* the inner loop is left: with exactly nglobal qubits the gate joins the
\* group, with fewer it is kept for the next group; the group is closed
CloseGroup ==
    /\ circuit # <<>>
    /\ circuit.pc = "inner"
    /\ Cardinality(circuit.global_qubits) <= circuit.nglobal
    /\ IF Cardinality(circuit.global_qubits) = circuit.nglobal
       THEN LET c == append_gate(circuit)
            IN CircuitStep("close",
                           IF HasNext(c) THEN close_group(next_gate(c))
                           ELSE StopIteration(c),
                           "none")
       ELSE CircuitStep("close", close_group(give_back(circuit)), "none")

\* the loop that prepares the gates of each group for the devices: one
\* list per group, then gate.reduce(global_qubits) on the first gate, a
\* method no gate class defines
Compile ==
    /\ circuit # <<>>
    /\ circuit.pc = "compile"
    /\ LET groups == circuit.queues
           filled == {k \in 1..Len(groups) : groups[k] # <<>>}
           first == CHOOSE k \in filled : \A j \in filled : k <= j
       IN IF filled = {}
          THEN CircuitStep("compile",
                           [circuit EXCEPT !.pc = "done",
                               !.device_queues = [k \in 1..Len(groups) |-> <<>>]],
                           "none")
          ELSE CircuitStep("compile",
                           [circuit EXCEPT !.pc = "done",
                               !.device_queues = [k \in 1..first |-> <<>>]],
                           "AttributeError")

\* a queue is made of at most MaxQueue gates, each on 1 to MaxGateQubits
\* qubits of the circuit
NextDist ==
    \/ \E nqubits \in 2..NumDistQubits, nglobal \in 1..MaxGlobal :
          LET gate_qubits == {qs \in SUBSET (0..(nqubits - 1)) :
                                Cardinality(qs) >= 1 /\ Cardinality(qs) <= MaxGateQubits}
          IN \E qubit_sets \in UNION {[1..k -> gate_qubits] : k \in 0..MaxQueue} :
                SetGates(nqubits, nglobal, qubit_sets)
    \/ WhileTrue
    \/ InnerLoop
    \/ CloseGroup
    \/ Compile

SpecDist == Init /\ [][NextDist]_vars

\* the interpreter runs the loop on: a step that can be taken is taken
SpecDistLive == SpecDist /\ WF_vars(NextDist)

\* the grouping loop has ended
Grouped == circuit # <<>> /\ circuit.pc \in {"compile", "done"}

\* C29: when the grouping of _set_gates has ended, the groups in order hold
\* every gate of the queue once and in the order of the queue, every entry
\* of global_qubits_list has nglobal qubits, and no gate of a group acts on
\* a global qubit of its group.
C29_Groups ==
    Grouped =>
        LET groups == circuit.queues
            globals == circuit.global_qubits_list
        IN /\ Concat(groups) = circuit.queue
           /\ Len(globals) = Len(groups)
           /\ \A k \in 1..Len(globals) : Len(globals[k]) = circuit.nglobal
           /\ \A k \in 1..Len(groups) : \A i \in 1..Len(groups[k]) :
                 groups[k][i].qubits \cap ToSet(globals[k]) = {}

\* C30: for every queue and every nglobal the grouping loop of _set_gates
\* comes to an end, also when a gate acts on more than nqubits - nglobal
\* qubits.
C30_GroupingEnds ==
    (circuit # <<>>) ~> Grouped

=============================================================================
